---- MODULE Spec2Model ----
(***************************************************************************)
(* Model of the unified build of hajak/health-overview                     *)
(* (src/scripts/buildUnifiedData.ts) and of the source priority table      *)
(* (src/types/unified.ts).                                                 *)
(*                                                                         *)
(* Numbers are fixed-point: the integer n stands for the JavaScript number *)
(* n / 1000.  JavaScript values that are not finite numbers (null,         *)
(* undefined, NaN) are separate tagged values, so that the difference      *)
(* between "absent" and "zero" is part of the model.                       *)
(* Arithmetic on the fixed-point numbers is exact; rounding follows        *)
(* Math.round (halves go towards +Infinity).                               *)
(***************************************************************************)
EXTENDS Integers, Sequences, FiniteSets, TLC

\* The unified build (src/scripts/buildUnifiedData.ts).
VARIABLES files, disk, unifiedDir, pc, appleMap, ouraSleepDailyMap,
          ouraSleepMap, ouraActivityMap, ouraReadinessMap, ouraSpO2Map,
          sortedDates, idx, unified, sourceCounters, artifact

\* The Apple Health normalizer (src/unnamed/part_008).
VARIABLES hostZone, xmlLines, lineCount, daily, dailyData

\* The moving average of the chart pages (computeMA).
VARIABLES points, windowDays, maResult

\* The summary cards of the Apple Health page and of the health report.
VARIABLES filteredDaily, pageStats, reportStats

\* The upload modal of the lab results (src/unnamed/part_000).
VARIABLES isOpen, status, error, selectedFile, parsedReports, pendingParses,
          uploaded, selections

\* The Strava sync (src/unnamed/part_007).
VARIABLES stravaActivities, syncCalls, previouslyStored

normalizerVars == <<hostZone, xmlLines, lineCount, daily, dailyData>>

chartVars == <<points, windowDays, maResult>>

pageVars == <<filteredDaily, pageStats, reportStats>>

modalVars == <<isOpen, status, error, selectedFile, parsedReports, pendingParses,
               uploaded, selections>>

syncVars == <<stravaActivities, syncCalls, previouslyStored>>

\* The state of the page, the modal and the sync.
restVars == <<pageVars, modalVars, syncVars>>

\* The state of the programs other than the unified build.
otherVars == <<normalizerVars, chartVars, restVars>>

vars == <<files, disk, unifiedDir, pc, appleMap, ouraSleepDailyMap,
          ouraSleepMap, ouraActivityMap, ouraReadinessMap, ouraSpO2Map,
          sortedDates, idx, unified, sourceCounters, artifact, otherVars>>

(***************************************************************************)
(* Bounds of the model.                                                    *)
(***************************************************************************)
\* Calendar days are 1..MaxDate; day k stands for the k-th ISO date string.
MaxDate == 2
\* Total number of records held by all the per-source input files together.
MaxRecords == 2

(***************************************************************************)
(* JavaScript values.                                                      *)
(***************************************************************************)
Null == [t |-> "null"]
Undef == [t |-> "undefined"]
NaN == [t |-> "NaN"]
Num(n) == [t |-> "num", n |-> n]

\* Number of model units per 1.0
Scale == 10 * 10 * 10

IsNum(v) == v.t = "num"
\* v == null || v == undefined
Nullish(v) == v.t \in {"null", "undefined"}
\* ToBoolean on a number-or-absent value: null, undefined, NaN and 0 are falsy
Truthy(v) == IsNum(v) /\ v.n # 0
\* v > 0 : null converts to 0, undefined to NaN, and NaN > 0 is false
Gt0(v) == IsNum(v) /\ v.n > 0
\* ToNumber
ToNumber(v) == IF v.t = "null" THEN Num(0) ELSE IF v.t = "undefined" THEN NaN ELSE v
\* a + b on number-or-absent operands
JsAdd(a, b) ==
  LET x == ToNumber(a)
      y == ToNumber(b)
  IN IF IsNum(x) /\ IsNum(y) THEN Num(x.n + y.n) ELSE NaN

\* floor(p / q + 1/2) for q > 0: Math.round rounds halves towards +Infinity
RoundHalfUp(p, q) == (2 * p + q) \div (2 * q)

\* Math.round(v)
MathRound(v) ==
  LET x == ToNumber(v)
  IN IF IsNum(x) THEN Num(RoundHalfUp(x.n, Scale) * Scale) ELSE NaN

\* Math.round(v / d) for a positive whole divisor d
MathRoundDiv(v, d) ==
  LET x == ToNumber(v)
  IN IF IsNum(x) THEN Num(RoundHalfUp(x.n, Scale * d) * Scale) ELSE NaN

\* Math.pow(10, k)
Pow10(k) == 10 ^ k

(***************************************************************************)
(* Helpers of buildUnifiedData.ts                                          *)
(***************************************************************************)
\* Only null and undefined are held back, NaN is wrapped.
sourced_noNaNCheck(value, source) ==
  IF Nullish(value) THEN Null ELSE [value |-> value, source |-> source]

sourced(value, source) ==
  IF Nullish(value) \/ value.t = "NaN" THEN Null
  ELSE [value |-> value, source |-> source]

\* The last non-null candidate wins.
RECURSIVE pickLast(_)
pickLast(candidates) ==
  IF candidates = <<>> THEN Null
  ELSE IF candidates[Len(candidates)] # Null THEN candidates[Len(candidates)]
  ELSE pickLast(SubSeq(candidates, 1, Len(candidates) - 1))

\* Only the first candidate is looked at.
pickFirst_headOnly(candidates) ==
  IF candidates = <<>> THEN Null ELSE Head(candidates)

RECURSIVE pickFirst(_)
pickFirst(candidates) ==
  IF candidates = <<>> THEN Null
  ELSE IF Head(candidates) # Null THEN Head(candidates)
  ELSE pickFirst(Tail(candidates))

\* A missing reading rounds to 0 instead of staying null.
roundVal_zeroForNull(v, decimals) ==
  IF Nullish(v) \/ v.t = "NaN" THEN Num(0)
  ELSE LET factor == Pow10(decimals)
       IN Num(RoundHalfUp(v.n * factor, Scale) * (Scale \div factor))

roundVal(v, decimals) ==
  IF Nullish(v) \/ v.t = "NaN" THEN Null
  ELSE LET factor == Pow10(decimals)
       IN Num(RoundHalfUp(v.n * factor, Scale) * (Scale \div factor))

(***************************************************************************)
(* JavaScript Map and Set, kept in insertion order.                        *)
(***************************************************************************)
\* A Map is a sequence of [k, v] entries in insertion order.
\* The position of key k (keys are unique), 0 when the Map has no such key.
MapIndex(m, k) ==
  IF \E j \in 1..Len(m) : m[j].k = k
  THEN CHOOSE j \in 1..Len(m) : m[j].k = k
  ELSE 0

MapHas(m, k) == MapIndex(m, k) # 0
MapGet(m, k) ==
  LET j == MapIndex(m, k)
  IN IF j = 0 THEN Undef ELSE m[j].v
\* Map.prototype.set: an existing key keeps its position
MapSet(m, k, v) ==
  IF MapHas(m, k) THEN [m EXCEPT ![MapIndex(m, k)] = [k |-> k, v |-> v]]
  ELSE Append(m, [k |-> k, v |-> v])
MapKeys(m) == [j \in 1..Len(m) |-> m[j].k]

\* Set.prototype.add on a Set kept as a duplicate-free sequence
SetAdd(s, x) == IF \E j \in 1..Len(s) : s[j] = x THEN s ELSE Append(s, x)

RECURSIVE SetAddAll(_, _)
SetAddAll(s, xs) == IF xs = <<>> THEN s ELSE SetAddAll(SetAdd(s, Head(xs)), Tail(xs))

\* rec?.field
Opt(rec, field) == IF rec = Undef THEN Undef ELSE rec[field]


\* Array.prototype.sort() on date strings, which are fixed-width ISO dates:
\* code-unit order of the strings is the order of the day numbers.
RECURSIVE InsertSorted(_, _)
InsertSorted(sorted, x) ==
  IF sorted = <<>> THEN <<x>>
  ELSE IF x < Head(sorted) THEN <<x>> \o sorted
  ELSE <<Head(sorted)>> \o InsertSorted(Tail(sorted), x)

RECURSIVE ArraySort(_)
ArraySort(arr) ==
  IF arr = <<>> THEN <<>>
  ELSE InsertSorted(ArraySort(SubSeq(arr, 1, Len(arr) - 1)), arr[Len(arr)])

(***************************************************************************)
(* The input files.  Each file is the "data" array of one per-source JSON  *)
(* file.  The readings of a record are drawn from small sets that hold the *)
(* cases the build tells apart: missing, zero, negative, positive, and     *)
(* values that rounding changes.                                           *)
(***************************************************************************)
Dates == 1..MaxDate

\* apple_health/daily_data.json: c fills the event sums, s the averaged
\* samples and the sleep minutes.
AppleDay(d, c, s) ==
  [date |-> d,
   steps |-> c, activeCalories |-> c, distance |-> c, exerciseMinutes |-> c,
   restingHeartRate |-> s, avgHeartRate |-> s, hrv |-> s,
   respiratoryRate |-> s, oxygenSaturation |-> s,
   sleepDuration |-> s, sleepCore |-> s, sleepDeep |-> s, sleepREM |-> s,
   sleepAwake |-> s, wristTemperature |-> s, vo2Max |-> s]

AppleReadings ==
  { <<Num(0), Null>>, <<Num(8000600), Num(58046)>>, <<Num(0 - 1000), Num(0 - 250)>> }

\* oura/daily_sleep.json
OuraDailySleep(d, score) == [day |-> d, score |-> score]

DailySleepReadings == { Num(0), Num(85000) }

\* oura/sleep.json: sec fills the durations (seconds), s the averages.
OuraSleepSession(d, type, sec, s) ==
  [day |-> d, type |-> type,
   average_breath |-> s, average_heart_rate |-> s, average_hrv |-> s,
   lowest_heart_rate |-> s, efficiency |-> s,
   awake_time |-> sec, deep_sleep_duration |-> sec, rem_sleep_duration |-> sec,
   light_sleep_duration |-> sec, total_sleep_duration |-> sec]

SessionReadings ==
  { <<"long_sleep", Num(27030000), Num(52340)>>,
    <<"sleep", Num(3620000), Null>>,
    <<"late_nap", Num(30000000), Num(61000)>>,
    <<"long_sleep", Num(0), Num(0)>> }

\* oura/daily_activity.json: c fills the counts, sec the activity times.
OuraActivity(d, c, sec) ==
  [day |-> d, steps |-> c, active_calories |-> c,
   equivalent_walking_distance |-> c,
   high_activity_time |-> sec, medium_activity_time |-> sec]

ActivityReadings ==
  { <<Num(0), Num(0)>>, <<Num(7000400), Num(930000)>>, <<Num(7000400), Undef>> }

\* oura/daily_readiness.json
OuraReadiness(d, score, dev) ==
  [day |-> d, score |-> score, temperature_deviation |-> dev]

ReadinessReadings ==
  { <<Num(80000), Num(0 - 255)>>, <<Num(80000), Null>>, <<Null, Num(0)>> }

\* oura/daily_spo2.json: average is spo2_percentage?.average
OuraSpO2(d, average, bdi) ==
  [day |-> d, average |-> average, breathing_disturbance_index |-> bdi]

SpO2Readings ==
  { <<Num(96550), Num(3000)>>, <<Num(0), Null>>, <<Null, Num(0)>> }

FileNames == {"apple", "daily_sleep", "sleep", "daily_activity",
              "daily_readiness", "daily_spo2"}

\* Every record any file may hold, tagged with its file.
AllRecords ==
  {[file |-> "apple", rec |-> AppleDay(d, r[1], r[2])] :
      d \in Dates, r \in AppleReadings}
  \cup {[file |-> "daily_sleep", rec |-> OuraDailySleep(d, r)] :
      d \in Dates, r \in DailySleepReadings}
  \cup {[file |-> "sleep", rec |-> OuraSleepSession(d, r[1], r[2], r[3])] :
      d \in Dates, r \in SessionReadings}
  \cup {[file |-> "daily_activity", rec |-> OuraActivity(d, r[1], r[2])] :
      d \in Dates, r \in ActivityReadings}
  \cup {[file |-> "daily_readiness", rec |-> OuraReadiness(d, r[1], r[2])] :
      d \in Dates, r \in ReadinessReadings}
  \cup {[file |-> "daily_spo2", rec |-> OuraSpO2(d, r[1], r[2])] :
      d \in Dates, r \in SpO2Readings}

\* The records of one file, in the order of the feed.
RECURSIVE FileOf(_, _)
FileOf(feed, f) ==
  IF feed = <<>> THEN <<>>
  ELSE (IF Head(feed).file = f THEN <<Head(feed).rec>> ELSE <<>>)
       \o FileOf(Tail(feed), f)

Feeds == UNION {[1..n -> AllRecords] : n \in 0..MaxRecords}

EmptyCounters == [m \in {} |-> 0]

\* What is found at the path of a per-source file: "json" is a JSON object
\* whose data property is the array files[f]; "missing" is no file at all;
\* "unparsable" is a file whose text is not JSON; "noData" is a file whose
\* text is JSON without a data property (for instance {}).
DiskStates == {"json", "missing", "unparsable", "noData"}

\* A process of the build that has not run yet, no artifact written so far.
FreshRun ==
  /\ unifiedDir = FALSE
  /\ pc = "load"
  /\ appleMap = <<>>
  /\ ouraSleepDailyMap = <<>>
  /\ ouraSleepMap = <<>>
  /\ ouraActivityMap = <<>>
  /\ ouraReadinessMap = <<>>
  /\ ouraSpO2Map = <<>>
  /\ sortedDates = <<>>
  /\ idx = 1
  /\ unified = <<>>
  /\ sourceCounters = EmptyCounters
  /\ artifact = Null

\* The normalizer has not been given an export.
NormalizerIdle ==
  /\ hostZone = [summer |-> 0, winter |-> 0, fallBackDay |-> 0]
  /\ xmlLines = <<>>
  /\ lineCount = 0
  /\ daily = <<>>
  /\ dailyData = Null

\* No chart is drawn.
ChartIdle ==
  /\ points = <<>>
  /\ windowDays = 0
  /\ maResult = Null

\* No page is rendered and no report generated.
PageIdle ==
  /\ filteredDaily = <<>>
  /\ pageStats = Null
  /\ reportStats = Null

\* The modal is mounted, closed, and was never used.
ModalIdle ==
  /\ isOpen = FALSE
  /\ status = "idle"
  /\ error = Null
  /\ selectedFile = Null
  /\ parsedReports = <<>>
  /\ pendingParses = {}
  /\ uploaded = <<>>
  /\ selections = 0

\* No sync was requested.
SyncIdle ==
  /\ stravaActivities = <<>>
  /\ syncCalls = <<>>
  /\ previouslyStored = <<>>

RestIdle == PageIdle /\ ModalIdle /\ SyncIdle

Init ==
  /\ \E feed \in Feeds : files = [f \in FileNames |-> FileOf(feed, f)]
  /\ disk = [f \in FileNames |-> "json"]
  /\ FreshRun
  /\ NormalizerIdle
  /\ ChartIdle
  /\ RestIdle


(***************************************************************************)
(* main(): loading the per-source files into date-keyed Maps.              *)
(***************************************************************************)
\* for (const d of arr) map.set(d[key], d)
RECURSIVE MapFromArray(_, _, _)
MapFromArray(m, arr, key) ==
  IF arr = <<>> THEN m
  ELSE MapFromArray(MapSet(m, Head(arr)[key], Head(arr)), Tail(arr), key)

\* a > b on number-or-absent operands
JsGt(a, b) ==
  LET x == ToNumber(a)
      y == ToNumber(b)
  IN IsNum(x) /\ IsNum(y) /\ x.n > y.n

\* The session is compared with the session kept last, of whatever night.
RECURSIVE SleepMapFromSessions_anyNight(_, _)
SleepMapFromSessions_anyNight(m, sessions) ==
  IF sessions = <<>> THEN m
  ELSE LET session == Head(sessions)
           existing == IF m = <<>> THEN Undef ELSE m[Len(m)].v
       IN IF session.type # "long_sleep" /\ session.type # "sleep"
          THEN SleepMapFromSessions_anyNight(m, Tail(sessions))
          ELSE IF existing = Undef
                  \/ JsGt(session.total_sleep_duration, existing.total_sleep_duration)
               THEN SleepMapFromSessions_anyNight(MapSet(m, session.day, session),
                                                  Tail(sessions))
               ELSE SleepMapFromSessions_anyNight(m, Tail(sessions))

\* Sessions of every type are candidates.
RECURSIVE SleepMapFromSessions_anyType(_, _)
SleepMapFromSessions_anyType(m, sessions) ==
  IF sessions = <<>> THEN m
  ELSE LET session == Head(sessions)
           existing == MapGet(m, session.day)
       IN IF existing = Undef
             \/ JsGt(session.total_sleep_duration, existing.total_sleep_duration)
          THEN SleepMapFromSessions_anyType(MapSet(m, session.day, session),
                                            Tail(sessions))
          ELSE SleepMapFromSessions_anyType(m, Tail(sessions))

\* The longest session of type long_sleep / sleep per night.
RECURSIVE SleepMapFromSessions(_, _)
SleepMapFromSessions(m, sessions) ==
  IF sessions = <<>> THEN m
  ELSE LET session == Head(sessions)
           existing == MapGet(m, session.day)
       IN IF session.type # "long_sleep" /\ session.type # "sleep"
          THEN SleepMapFromSessions(m, Tail(sessions))
          ELSE IF existing = Undef
                  \/ JsGt(session.total_sleep_duration, existing.total_sleep_duration)
               THEN SleepMapFromSessions(MapSet(m, session.day, session), Tail(sessions))
               ELSE SleepMapFromSessions(m, Tail(sessions))

\* An exception that nothing catches: the process ends.
Thrown == [t |-> "throw"]

\* loadJson without the existsSync test: reading a missing file throws.
loadJson_noExistsCheck(f) ==
  IF disk[f] = "missing" \/ disk[f] = "unparsable" THEN Thrown
  ELSE [t |-> "object", hasData |-> disk[f] = "json", data |-> files[f]]

\* if (!fs.existsSync(filePath)) return null;
\* return JSON.parse(fs.readFileSync(filePath, 'utf-8'));

loadJson(f) ==
  IF disk[f] = "missing" THEN Null
  ELSE IF disk[f] = "unparsable" THEN Thrown
  ELSE [t |-> "object", hasData |-> disk[f] = "json", data |-> files[f]]

\* raw?.data || []
dataOrEmpty(raw) ==
  IF raw.t = "object" /\ raw.hasData THEN raw.data ELSE <<>>

\* The six files are loaded one after the other; the first JSON.parse that
\* throws ends the process before any Map is used.
LoadSources ==
  /\ pc = "load"
  /\ LET appleRaw == loadJson("apple")
         ouraSleepDaily == loadJson("daily_sleep")
         ouraSleepSessions == loadJson("sleep")
         ouraActivity == loadJson("daily_activity")
         ouraReadiness == loadJson("daily_readiness")
         ouraSpO2 == loadJson("daily_spo2")
     IN IF Thrown \in {appleRaw, ouraSleepDaily, ouraSleepSessions,
                       ouraActivity, ouraReadiness, ouraSpO2}
        THEN /\ pc' = "failed"
             /\ UNCHANGED <<appleMap, ouraSleepDailyMap, ouraSleepMap,
                            ouraActivityMap, ouraReadinessMap, ouraSpO2Map>>
        ELSE /\ appleMap' = MapFromArray(<<>>, dataOrEmpty(appleRaw), "date")
             /\ ouraSleepDailyMap' =
                  MapFromArray(<<>>, dataOrEmpty(ouraSleepDaily), "day")
             /\ ouraSleepMap' =
                  SleepMapFromSessions(<<>>, dataOrEmpty(ouraSleepSessions))
             /\ ouraActivityMap' =
                  MapFromArray(<<>>, dataOrEmpty(ouraActivity), "day")
             /\ ouraReadinessMap' =
                  MapFromArray(<<>>, dataOrEmpty(ouraReadiness), "day")
             /\ ouraSpO2Map' =
                  MapFromArray(<<>>, dataOrEmpty(ouraSpO2), "day")
             /\ pc' = "collect"
  /\ UNCHANGED <<files, disk, unifiedDir, sortedDates, idx, unified,
                 sourceCounters, artifact, otherVars>>

(***************************************************************************)
(* main(): the date axis.                                                  *)
(***************************************************************************)
\* The dates of the SpO2 Map are left out.
allDatesOf_noSpO2(am, sdm, sm, actm, rm, spm) ==
  SetAddAll(SetAddAll(SetAddAll(SetAddAll(SetAddAll(<<>>,
    MapKeys(am)), MapKeys(sdm)), MapKeys(sm)), MapKeys(actm)), MapKeys(rm))

\* The Set of all dates, in insertion order.
allDatesOf(am, sdm, sm, actm, rm, spm) ==
  SetAddAll(SetAddAll(SetAddAll(SetAddAll(SetAddAll(SetAddAll(<<>>,
    MapKeys(am)), MapKeys(sdm)), MapKeys(sm)), MapKeys(actm)),
    MapKeys(rm)), MapKeys(spm))

\* Array.from(allDates) without the sort.
unsortedDates(allDates) == allDates

\* Array.from(allDates).sort()

sortDates(allDates) == ArraySort(allDates)

\* The build starts from the records of the previous artifact.
CollectDates_mergesArtifact ==
  /\ pc = "collect"
  /\ sortedDates' = sortDates(allDatesOf(appleMap, ouraSleepDailyMap, ouraSleepMap,
                                         ouraActivityMap, ouraReadinessMap, ouraSpO2Map))
  /\ unified' = IF artifact = Null THEN <<>> ELSE artifact.data
  /\ sourceCounters' = EmptyCounters
  /\ idx' = 1
  /\ pc' = "build"
  /\ UNCHANGED <<files, disk, unifiedDir, appleMap, ouraSleepDailyMap,
                 ouraSleepMap, ouraActivityMap, ouraReadinessMap, ouraSpO2Map,
                 artifact, otherVars>>

CollectDates ==
  /\ pc = "collect"
  /\ sortedDates' = sortDates(allDatesOf(appleMap, ouraSleepDailyMap, ouraSleepMap,
                                         ouraActivityMap, ouraReadinessMap, ouraSpO2Map))
  /\ unified' = <<>>
  /\ sourceCounters' = EmptyCounters
  /\ idx' = 1
  /\ pc' = "build"
  /\ UNCHANGED <<files, disk, unifiedDir, appleMap, ouraSleepDailyMap,
                 ouraSleepMap, ouraActivityMap, ouraReadinessMap, ouraSpO2Map,
                 artifact, otherVars>>


(***************************************************************************)
(* main(): one unified field per metric.  Each operator takes the records  *)
(* found for the date (Undef when the Map has none).                       *)
(***************************************************************************)
\* Steps are held back only when missing: a reported 0 is a value.
steps_zeroIsValue(apple, ouraAct) ==
  pickFirst(<<
    sourced(IF ~Nullish(Opt(apple, "steps")) THEN apple.steps ELSE Null, "apple_health"),
    sourced(IF ~Nullish(Opt(ouraAct, "steps")) THEN ouraAct.steps ELSE Null, "oura") >>)

steps(apple, ouraAct) ==
  pickFirst(<<
    sourced(IF Truthy(Opt(apple, "steps")) /\ Gt0(Opt(apple, "steps"))
            THEN apple.steps ELSE Null, "apple_health"),
    sourced(IF Truthy(Opt(ouraAct, "steps")) /\ Gt0(Opt(ouraAct, "steps"))
            THEN ouraAct.steps ELSE Null, "oura") >>)

activeCalories(apple, ouraAct) ==
  pickFirst(<<
    sourced(IF Truthy(Opt(apple, "activeCalories")) /\ Gt0(Opt(apple, "activeCalories"))
            THEN MathRound(apple.activeCalories) ELSE Null, "apple_health"),
    sourced(IF Truthy(Opt(ouraAct, "active_calories")) /\ Gt0(Opt(ouraAct, "active_calories"))
            THEN ouraAct.active_calories ELSE Null, "oura") >>)

distanceMeters(apple, ouraAct) ==
  pickFirst(<<
    sourced(IF Truthy(Opt(apple, "distance")) /\ Gt0(Opt(apple, "distance"))
            THEN apple.distance ELSE Null, "apple_health"),
    sourced(IF Truthy(Opt(ouraAct, "equivalent_walking_distance"))
               /\ Gt0(Opt(ouraAct, "equivalent_walking_distance"))
            THEN MathRound(ouraAct.equivalent_walking_distance) ELSE Null, "oura") >>)

exerciseMinutes(apple, ouraAct) ==
  pickFirst(<<
    sourced(IF Truthy(Opt(apple, "exerciseMinutes")) /\ Gt0(Opt(apple, "exerciseMinutes"))
            THEN apple.exerciseMinutes ELSE Null, "apple_health"),
    sourced(IF ouraAct # Undef
            THEN MathRoundDiv(JsAdd(ouraAct.high_activity_time,
                                    ouraAct.medium_activity_time), 60)
            ELSE Null, "oura") >>)

restingHeartRate(apple, ouraSleep) ==
  pickFirst(<<
    sourced(IF Truthy(Opt(ouraSleep, "lowest_heart_rate"))
            THEN roundVal(ouraSleep.lowest_heart_rate, 1) ELSE Null, "oura"),
    sourced(roundVal(Opt(apple, "restingHeartRate"), 1), "apple_health") >>)

avgHeartRate(apple, ouraSleep) ==
  pickFirst(<<
    sourced(roundVal(Opt(apple, "avgHeartRate"), 1), "apple_health"),
    sourced(IF Truthy(Opt(ouraSleep, "average_heart_rate"))
            THEN roundVal(ouraSleep.average_heart_rate, 1) ELSE Null, "oura") >>)

\* HRV with Apple consulted before Oura.
hrv_appleFirst(apple, ouraSleep) ==
  pickFirst(<<
    sourced(roundVal(Opt(apple, "hrv"), 1), "apple_health"),
    sourced(IF Truthy(Opt(ouraSleep, "average_hrv"))
            THEN roundVal(ouraSleep.average_hrv, 1) ELSE Null, "oura") >>)

hrv(apple, ouraSleep) ==
  pickFirst(<<
    sourced(IF Truthy(Opt(ouraSleep, "average_hrv"))
            THEN roundVal(ouraSleep.average_hrv, 1) ELSE Null, "oura"),
    sourced(roundVal(Opt(apple, "hrv"), 1), "apple_health") >>)

sleepDurationMinutes_seconds(apple, ouraSleep) ==
  pickFirst(<<
    sourced(IF Truthy(Opt(ouraSleep, "total_sleep_duration"))
               /\ Gt0(Opt(ouraSleep, "total_sleep_duration"))
            THEN MathRound(ouraSleep.total_sleep_duration) ELSE Null, "oura"),
    sourced(IF Truthy(Opt(apple, "sleepDuration")) /\ Gt0(Opt(apple, "sleepDuration"))
            THEN apple.sleepDuration ELSE Null, "apple_health") >>)

sleepDurationMinutes(apple, ouraSleep) ==
  pickFirst(<<
    sourced(IF Truthy(Opt(ouraSleep, "total_sleep_duration"))
               /\ Gt0(Opt(ouraSleep, "total_sleep_duration"))
            THEN MathRoundDiv(ouraSleep.total_sleep_duration, 60) ELSE Null, "oura"),
    sourced(IF Truthy(Opt(apple, "sleepDuration")) /\ Gt0(Opt(apple, "sleepDuration"))
            THEN apple.sleepDuration ELSE Null, "apple_health") >>)

sleepScore(ouraSleepD) ==
  sourced(IF Nullish(Opt(ouraSleepD, "score")) THEN Null ELSE ouraSleepD.score, "oura")

sleepDeepMinutes(apple, ouraSleep) ==
  pickFirst(<<
    sourced(IF Truthy(Opt(ouraSleep, "deep_sleep_duration"))
               /\ Gt0(Opt(ouraSleep, "deep_sleep_duration"))
            THEN MathRoundDiv(ouraSleep.deep_sleep_duration, 60) ELSE Null, "oura"),
    sourced(IF Truthy(Opt(apple, "sleepDeep")) /\ Gt0(Opt(apple, "sleepDeep"))
            THEN apple.sleepDeep ELSE Null, "apple_health") >>)

sleepREMMinutes(apple, ouraSleep) ==
  pickFirst(<<
    sourced(IF Truthy(Opt(ouraSleep, "rem_sleep_duration"))
               /\ Gt0(Opt(ouraSleep, "rem_sleep_duration"))
            THEN MathRoundDiv(ouraSleep.rem_sleep_duration, 60) ELSE Null, "oura"),
    sourced(IF Truthy(Opt(apple, "sleepREM")) /\ Gt0(Opt(apple, "sleepREM"))
            THEN apple.sleepREM ELSE Null, "apple_health") >>)

sleepLightMinutes(apple, ouraSleep) ==
  pickFirst(<<
    sourced(IF Truthy(Opt(ouraSleep, "light_sleep_duration"))
               /\ Gt0(Opt(ouraSleep, "light_sleep_duration"))
            THEN MathRoundDiv(ouraSleep.light_sleep_duration, 60) ELSE Null, "oura"),
    sourced(IF Truthy(Opt(apple, "sleepCore")) /\ Gt0(Opt(apple, "sleepCore"))
            THEN apple.sleepCore ELSE Null, "apple_health") >>)

sleepAwakeMinutes(apple, ouraSleep) ==
  pickFirst(<<
    sourced(IF Truthy(Opt(ouraSleep, "awake_time")) /\ Gt0(Opt(ouraSleep, "awake_time"))
            THEN MathRoundDiv(ouraSleep.awake_time, 60) ELSE Null, "oura"),
    sourced(IF Truthy(Opt(apple, "sleepAwake")) /\ Gt0(Opt(apple, "sleepAwake"))
            THEN apple.sleepAwake ELSE Null, "apple_health") >>)

sleepEfficiency(ouraSleep) ==
  sourced(IF Truthy(Opt(ouraSleep, "efficiency")) /\ Gt0(Opt(ouraSleep, "efficiency"))
          THEN ouraSleep.efficiency ELSE Null, "oura")

respiratoryRate(apple, ouraSleep) ==
  pickFirst(<<
    sourced(IF Truthy(Opt(ouraSleep, "average_breath"))
            THEN roundVal(ouraSleep.average_breath, 1) ELSE Null, "oura"),
    sourced(roundVal(Opt(apple, "respiratoryRate"), 1), "apple_health") >>)

oxygenSaturation(apple, ouraSpO2) ==
  pickFirst(<<
    sourced(IF Truthy(Opt(ouraSpO2, "average"))
            THEN roundVal(ouraSpO2.average, 1) ELSE Null, "oura"),
    sourced(roundVal(Opt(apple, "oxygenSaturation"), 1), "apple_health") >>)

breathingDisturbanceIndex(ouraSpO2) ==
  sourced(IF Nullish(Opt(ouraSpO2, "breathing_disturbance_index")) THEN Null
          ELSE ouraSpO2.breathing_disturbance_index, "oura")

readinessScore(ouraReady) ==
  sourced(IF Nullish(Opt(ouraReady, "score")) THEN Null ELSE ouraReady.score, "oura")

temperatureDeviation(ouraReady) ==
  sourced(IF ~Nullish(Opt(ouraReady, "temperature_deviation"))
          THEN roundVal(ouraReady.temperature_deviation, 2) ELSE Null, "oura")

vo2Max(apple) == sourced(roundVal(Opt(apple, "vo2Max"), 1), "apple_health")

wristTemperature(apple) ==
  sourced(roundVal(Opt(apple, "wristTemperature"), 2), "apple_health")

\* The record pushed for one date.
UnifiedDay(date, apple, ouraSleepD, ouraSleep, ouraAct, ouraReady, ouraSpO2) ==
  [date |-> date,
   steps |-> steps(apple, ouraAct),
   activeCalories |-> activeCalories(apple, ouraAct),
   distanceMeters |-> distanceMeters(apple, ouraAct),
   exerciseMinutes |-> exerciseMinutes(apple, ouraAct),
   restingHeartRate |-> restingHeartRate(apple, ouraSleep),
   avgHeartRate |-> avgHeartRate(apple, ouraSleep),
   hrv |-> hrv(apple, ouraSleep),
   sleepDurationMinutes |-> sleepDurationMinutes(apple, ouraSleep),
   sleepScore |-> sleepScore(ouraSleepD),
   sleepDeepMinutes |-> sleepDeepMinutes(apple, ouraSleep),
   sleepREMMinutes |-> sleepREMMinutes(apple, ouraSleep),
   sleepLightMinutes |-> sleepLightMinutes(apple, ouraSleep),
   sleepAwakeMinutes |-> sleepAwakeMinutes(apple, ouraSleep),
   sleepEfficiency |-> sleepEfficiency(ouraSleep),
   respiratoryRate |-> respiratoryRate(apple, ouraSleep),
   oxygenSaturation |-> oxygenSaturation(apple, ouraSpO2),
   breathingDisturbanceIndex |-> breathingDisturbanceIndex(ouraSpO2),
   readinessScore |-> readinessScore(ouraReady),
   temperatureDeviation |-> temperatureDeviation(ouraReady),
   vo2Max |-> vo2Max(apple),
   wristTemperature |-> wristTemperature(apple)]

\* The metrics array of the tracking loop, by name.
metrics ==
  << "steps", "activeCalories", "distanceMeters", "exerciseMinutes",
     "restingHeartRate", "avgHeartRate", "hrv", "sleepDurationMinutes",
     "sleepScore", "sleepDeepMinutes", "sleepREMMinutes", "sleepLightMinutes",
     "sleepAwakeMinutes", "sleepEfficiency", "respiratoryRate", "oxygenSaturation",
     "breathingDisturbanceIndex", "readinessScore", "temperatureDeviation",
     "vo2Max", "wristTemperature" >>

EmptyObject == [x \in {} |-> 0]

track_overwrites(counters, metric, source) ==
  LET inner == IF metric \in DOMAIN counters THEN counters[metric] ELSE EmptyObject
      inner2 == [s \in (DOMAIN inner) \cup {source} |->
                   IF s = source THEN 1 ELSE inner[s]]
  IN [m \in (DOMAIN counters) \cup {metric} |->
        IF m = metric THEN inner2 ELSE counters[m]]

track(counters, metric, source) ==
  LET inner == IF metric \in DOMAIN counters THEN counters[metric] ELSE EmptyObject
      old == IF source \in DOMAIN inner THEN inner[source] ELSE 0
      inner2 == [s \in (DOMAIN inner) \cup {source} |->
                   IF s = source THEN old + 1 ELSE inner[s]]
  IN [m \in (DOMAIN counters) \cup {metric} |->
        IF m = metric THEN inner2 ELSE counters[m]]

\* for (const [name, val] of metrics) if (val) track(name, val.source)
RECURSIVE trackAll(_, _, _)
trackAll(counters, names, rec) ==
  IF names = <<>> THEN counters
  ELSE trackAll(IF rec[Head(names)] # Null
                THEN track(counters, Head(names), rec[Head(names)].source)
                ELSE counters,
                Tail(names), rec)

BuildRecord ==
  /\ pc = "build"
  /\ idx <= Len(sortedDates)
  /\ LET date == sortedDates[idx]
         rec == UnifiedDay(date,
                           MapGet(appleMap, date),
                           MapGet(ouraSleepDailyMap, date),
                           MapGet(ouraSleepMap, date),
                           MapGet(ouraActivityMap, date),
                           MapGet(ouraReadinessMap, date),
                           MapGet(ouraSpO2Map, date))
     IN /\ unified' = Append(unified, rec)
        /\ sourceCounters' = trackAll(sourceCounters, metrics, rec)
  /\ idx' = idx + 1
  /\ UNCHANGED <<files, disk, unifiedDir, pc, appleMap, ouraSleepDailyMap,
                 ouraSleepMap, ouraActivityMap, ouraReadinessMap, ouraSpO2Map,
                 sortedDates, artifact, otherVars>>

\* The output path is the path of the Apple file.
WriteOutput_overSource ==
  /\ pc = "build"
  /\ idx > Len(sortedDates)
  /\ files' = [files EXCEPT !["apple"] = unified]
  /\ disk' = [disk EXCEPT !["apple"] = "json"]
  /\ pc' = "done"
  /\ UNCHANGED <<unifiedDir, artifact, appleMap, ouraSleepDailyMap, ouraSleepMap,
                 ouraActivityMap, ouraReadinessMap, ouraSpO2Map, sortedDates,
                 idx, unified, sourceCounters, otherVars>>

\* The records of this run are added to those of the artifact found.
WriteOutput_keepsEarlier ==
  /\ pc = "build"
  /\ idx > Len(sortedDates)
  /\ unifiedDir' = TRUE
  /\ artifact' = [data |-> (IF artifact = Null THEN <<>> ELSE artifact.data) \o unified]
  /\ pc' = "done"
  /\ UNCHANGED <<files, disk, appleMap, ouraSleepDailyMap, ouraSleepMap,
                 ouraActivityMap, ouraReadinessMap, ouraSpO2Map, sortedDates,
                 idx, unified, sourceCounters, otherVars>>

\* if (!fs.existsSync(outputDir)) fs.mkdirSync(outputDir);
\* fs.writeFileSync(outputPath, JSON.stringify({ data: unified }))
WriteOutput ==
  /\ pc = "build"
  /\ idx > Len(sortedDates)
  /\ unifiedDir' = TRUE
  /\ artifact' = [data |-> unified]
  /\ pc' = "done"
  /\ UNCHANGED <<files, disk, appleMap, ouraSleepDailyMap, ouraSleepMap,
                 ouraActivityMap, ouraReadinessMap, ouraSpO2Map, sortedDates,
                 idx, unified, sourceCounters, otherVars>>

\* The script is run again: a new process starts with main()'s locals
\* not yet set, and with the files as the previous run left them.
RunAgain ==
  /\ pc = "done"
  /\ pc' = "load"
  /\ appleMap' = <<>>
  /\ ouraSleepDailyMap' = <<>>
  /\ ouraSleepMap' = <<>>
  /\ ouraActivityMap' = <<>>
  /\ ouraReadinessMap' = <<>>
  /\ ouraSpO2Map' = <<>>
  /\ sortedDates' = <<>>
  /\ idx' = 1
  /\ unified' = <<>>
  /\ sourceCounters' = EmptyCounters
  /\ UNCHANGED <<files, disk, unifiedDir, artifact, otherVars>>

\* One run of the script.
Next ==
  \/ LoadSources
  \/ CollectDates
  \/ BuildRecord
  \/ WriteOutput

Spec == Init /\ [][Next]_vars

\* The script run any number of times on the same files.
NextRerun ==
  \/ LoadSources
  \/ CollectDates
  \/ BuildRecord
  \/ WriteOutput
  \/ RunAgain

SpecRerun == Init /\ [][NextRerun]_vars


(***************************************************************************)
(* types/unified.ts                                                        *)
(***************************************************************************)
\* The interface with a metric field that has no priority entry.
UnifiedDailyRecordFields_extraField ==
  {metrics[j] : j \in 1..Len(metrics)} \cup {"standHours"}

\* The metric fields of interface UnifiedDailyRecord (all fields but date).
UnifiedDailyRecordFields ==
  { "steps", "activeCalories", "distanceMeters", "exerciseMinutes",
    "restingHeartRate", "avgHeartRate", "hrv",
    "sleepDurationMinutes", "sleepScore", "sleepDeepMinutes", "sleepREMMinutes",
    "sleepLightMinutes", "sleepAwakeMinutes", "sleepEfficiency",
    "respiratoryRate", "oxygenSaturation", "breathingDisturbanceIndex",
    "readinessScore", "temperatureDeviation",
    "vo2Max", "wristTemperature" }

SourcePriority(metric, primary, fallback) ==
  [metric |-> metric, primary |-> primary, fallback |-> fallback]

SOURCE_PRIORITIES ==
  << SourcePriority("steps", "apple_health", <<"oura">>),
     SourcePriority("activeCalories", "apple_health", <<"oura">>),
     SourcePriority("distanceMeters", "apple_health", <<"oura">>),
     SourcePriority("exerciseMinutes", "apple_health", <<"oura">>),
     SourcePriority("restingHeartRate", "oura", <<"apple_health">>),
     SourcePriority("avgHeartRate", "apple_health", <<"oura">>),
     SourcePriority("hrv", "oura", <<"apple_health">>),
     SourcePriority("sleepDurationMinutes", "oura", <<"apple_health">>),
     SourcePriority("sleepScore", "oura", <<>>),
     SourcePriority("sleepDeepMinutes", "oura", <<"apple_health">>),
     SourcePriority("sleepREMMinutes", "oura", <<"apple_health">>),
     SourcePriority("sleepLightMinutes", "oura", <<"apple_health">>),
     SourcePriority("sleepAwakeMinutes", "oura", <<"apple_health">>),
     SourcePriority("sleepEfficiency", "oura", <<>>),
     SourcePriority("respiratoryRate", "oura", <<"apple_health">>),
     SourcePriority("oxygenSaturation", "oura", <<"apple_health">>),
     SourcePriority("breathingDisturbanceIndex", "oura", <<>>),
     SourcePriority("readinessScore", "oura", <<>>),
     SourcePriority("temperatureDeviation", "oura", <<>>),
     SourcePriority("vo2Max", "apple_health", <<>>),
     SourcePriority("wristTemperature", "apple_health", <<>>) >>

(***************************************************************************)
(* What the claims speak of: the readings a source holds for a date, when  *)
(* a reading is valid, and its value in the unit of the unified metric.    *)
(***************************************************************************)
\* Where a source keeps its reading of a metric, which readings count as
\* valid ("positive": a number above 0; "nonzero": a number other than 0;
\* "number": any number), and how the reading is brought to the unified unit
\* ("same"; "whole": nearest whole number; "tenth", "hundredth": nearest
\* 0.1 or 0.01; "minutes": seconds to the nearest whole minute).
Held(file, field, valid, unit) ==
  [file |-> file, field |-> field, valid |-> valid, unit |-> unit]

AppleHolds ==
  [m \in UnifiedDailyRecordFields |->
    CASE m = "steps" -> Held("apple", "steps", "positive", "same")
      [] m = "activeCalories" -> Held("apple", "activeCalories", "positive", "whole")
      [] m = "distanceMeters" -> Held("apple", "distance", "positive", "same")
      [] m = "exerciseMinutes" -> Held("apple", "exerciseMinutes", "positive", "same")
      [] m = "restingHeartRate" -> Held("apple", "restingHeartRate", "number", "tenth")
      [] m = "avgHeartRate" -> Held("apple", "avgHeartRate", "number", "tenth")
      [] m = "hrv" -> Held("apple", "hrv", "number", "tenth")
      [] m = "sleepDurationMinutes" -> Held("apple", "sleepDuration", "positive", "same")
      [] m = "sleepDeepMinutes" -> Held("apple", "sleepDeep", "positive", "same")
      [] m = "sleepREMMinutes" -> Held("apple", "sleepREM", "positive", "same")
      [] m = "sleepLightMinutes" -> Held("apple", "sleepCore", "positive", "same")
      [] m = "sleepAwakeMinutes" -> Held("apple", "sleepAwake", "positive", "same")
      [] m = "respiratoryRate" -> Held("apple", "respiratoryRate", "number", "tenth")
      [] m = "oxygenSaturation" -> Held("apple", "oxygenSaturation", "number", "tenth")
      [] m = "vo2Max" -> Held("apple", "vo2Max", "number", "tenth")
      [] m = "wristTemperature" -> Held("apple", "wristTemperature", "number", "hundredth")
      [] OTHER -> Held("none", "none", "number", "same")]

OuraHolds ==
  [m \in UnifiedDailyRecordFields |->
    CASE m = "steps" -> Held("daily_activity", "steps", "positive", "same")
      [] m = "activeCalories" -> Held("daily_activity", "active_calories", "positive", "same")
      [] m = "distanceMeters" ->
           Held("daily_activity", "equivalent_walking_distance", "positive", "whole")
      [] m = "exerciseMinutes" -> Held("daily_activity", "high+medium", "number", "minutes")
      [] m = "restingHeartRate" -> Held("sleep", "lowest_heart_rate", "nonzero", "tenth")
      [] m = "avgHeartRate" -> Held("sleep", "average_heart_rate", "nonzero", "tenth")
      [] m = "hrv" -> Held("sleep", "average_hrv", "nonzero", "tenth")
      [] m = "sleepDurationMinutes" -> Held("sleep", "total_sleep_duration", "positive", "minutes")
      [] m = "sleepScore" -> Held("daily_sleep", "score", "number", "same")
      [] m = "sleepDeepMinutes" -> Held("sleep", "deep_sleep_duration", "positive", "minutes")
      [] m = "sleepREMMinutes" -> Held("sleep", "rem_sleep_duration", "positive", "minutes")
      [] m = "sleepLightMinutes" -> Held("sleep", "light_sleep_duration", "positive", "minutes")
      [] m = "sleepAwakeMinutes" -> Held("sleep", "awake_time", "positive", "minutes")
      [] m = "sleepEfficiency" -> Held("sleep", "efficiency", "positive", "same")
      [] m = "respiratoryRate" -> Held("sleep", "average_breath", "nonzero", "tenth")
      [] m = "oxygenSaturation" -> Held("daily_spo2", "average", "nonzero", "tenth")
      [] m = "breathingDisturbanceIndex" ->
           Held("daily_spo2", "breathing_disturbance_index", "number", "same")
      [] m = "readinessScore" -> Held("daily_readiness", "score", "number", "same")
      [] m = "temperatureDeviation" ->
           Held("daily_readiness", "temperature_deviation", "number", "hundredth")
      [] OTHER -> Held("none", "none", "number", "same")]

Holds(m, source) == IF source = "apple_health" THEN AppleHolds[m] ELSE OuraHolds[m]

\* The Map the build keeps for a file.
MapOfFile(file) ==
  CASE file = "apple" -> appleMap
    [] file = "daily_sleep" -> ouraSleepDailyMap
    [] file = "sleep" -> ouraSleepMap
    [] file = "daily_activity" -> ouraActivityMap
    [] file = "daily_readiness" -> ouraReadinessMap
    [] file = "daily_spo2" -> ouraSpO2Map
    [] OTHER -> <<>>

\* The reading source holds for metric m on date d (Undef: no record).
Reading(m, source, d) ==
  LET h == Holds(m, source)
      rec == MapGet(MapOfFile(h.file), d)
  IN IF rec = Undef THEN Undef
     ELSE IF h.field = "high+medium"
          THEN JsAdd(rec.high_activity_time, rec.medium_activity_time)
          ELSE rec[h.field]

ValidReading(m, source, d) ==
  LET h == Holds(m, source)
      v == Reading(m, source, d)
  IN /\ IsNum(v)
     /\ (h.valid = "positive" => v.n > 0)
     /\ (h.valid = "nonzero" => v.n # 0)

\* The multiple of unit nearest to n, halves going up (unit is even).
Nearest(n, unit) == ((n + unit \div 2) \div unit) * unit

\* The valid reading in the unit and precision of the unified metric.
Normalized(m, source, d) ==
  LET h == Holds(m, source)
      n == Reading(m, source, d).n
  IN CASE h.unit = "same" -> Num(n)
       [] h.unit = "whole" -> Num(Nearest(n, Scale))
       [] h.unit = "tenth" -> Num(Nearest(n, Scale \div 10))
       [] h.unit = "hundredth" -> Num(Nearest(n, Scale \div 100))
       [] h.unit = "minutes" -> Num(Nearest(n, 60 * Scale) \div 60)

Entries == {SOURCE_PRIORITIES[j] : j \in 1..Len(SOURCE_PRIORITIES)}
EntriesWithFallback == {e \in Entries : e.fallback # <<>>}
Listed(e) == <<e.primary>> \o e.fallback
Emitted == {unified[j] : j \in 1..Len(unified)}

\* The field the priority table prescribes: the first listed source with a
\* valid reading supplies the value and the tag; none gives null.
RECURSIVE Prescribed(_, _, _)
Prescribed(m, sources, d) ==
  IF sources = <<>> THEN Null
  ELSE IF ValidReading(m, Head(sources), d)
       THEN [value |-> Normalized(m, Head(sources), d), source |-> Head(sources)]
       ELSE Prescribed(m, Tail(sources), d)


(***************************************************************************)
(* Claims about the unified build.                                         *)
(***************************************************************************)
\* C1 (priority determinism): in every unified record emitted, for every
\* metric whose priority entry has a fallback, when the primary source and a
\* fallback source both hold a valid reading for the record's date, the
\* field carries the primary's normalized value and the primary's tag.
C1_PriorityDeterminism ==
  \A r \in Emitted : \A e \in EntriesWithFallback :
    ( /\ ValidReading(e.metric, e.primary, r.date)
      /\ \E k \in 1..Len(e.fallback) : ValidReading(e.metric, e.fallback[k], r.date) )
    => r[e.metric] = [value |-> Normalized(e.metric, e.primary, r.date),
                      source |-> e.primary]

\* A record for a day on which Oura (primary) and Apple (fallback) hold
\* different valid HRV readings, with the field tagged oura.
C1_Witness ==
  \E r \in Emitted :
    /\ ValidReading("hrv", "oura", r.date) /\ ValidReading("hrv", "apple_health", r.date)
    /\ r.hrv.source = "oura"
    /\ Reading("hrv", "oura", r.date) # Reading("hrv", "apple_health", r.date)

\* C2 (fallback correctness): in every unified record emitted, for every
\* metric with a fallback, when the primary source holds no valid reading
\* for the date and the next source in priority order does, the field
\* carries that fallback's normalized value and the fallback's tag.
C2_FallbackCorrectness ==
  \A r \in Emitted : \A e \in EntriesWithFallback :
    ( /\ ~ValidReading(e.metric, e.primary, r.date)
      /\ ValidReading(e.metric, e.fallback[1], r.date) )
    => r[e.metric] = [value |-> Normalized(e.metric, e.fallback[1], r.date),
                      source |-> e.fallback[1]]

\* A record whose sleep duration comes from Apple (fallback) although an
\* Oura session exists for the night: its duration is not a valid reading.
C2_Witness ==
  \E r \in Emitted :
    /\ MapHas(ouraSleepMap, r.date)
    /\ ~ValidReading("sleepDurationMinutes", "oura", r.date)
    /\ r.sleepDurationMinutes # Null
    /\ r.sleepDurationMinutes.source = "apple_health"

\* C3 (total absence): in every unified record emitted, a metric none of
\* whose listed sources holds a valid reading for the date is null.
C3_TotalAbsence ==
  \A r \in Emitted : \A e \in Entries :
    (\A k \in 1..Len(Listed(e)) : ~ValidReading(e.metric, Listed(e)[k], r.date))
    => r[e.metric] = Null

\* A record for a day on which both sources have a record and report 0
\* steps: steps is null, and so is VO2 max, which Apple does not hold.
C3_Witness ==
  \E r \in Emitted :
    /\ Reading("steps", "apple_health", r.date) = Num(0)
    /\ Reading("steps", "oura", r.date) = Num(0)
    /\ r.steps = Null
    /\ r.vo2Max = Null


DateKey(file) == IF file = "apple" THEN "date" ELSE "day"
DatesIn(file) == {files[file][j][DateKey(file)] : j \in 1..Len(files[file])}
\* The dates of every record of every input file.
AllInputDates == UNION {DatesIn(f) : f \in FileNames}
\* The nights that have a session of type long_sleep or sleep.
MainSleepNights ==
  {files["sleep"][j].day : j \in {k \in 1..Len(files["sleep"]) :
                                    files["sleep"][k].type \in {"long_sleep", "sleep"}}}
\* The dates of the per-source daily maps: nap-only nights are not among them.
AllMapDates == UNION {DatesIn(f) : f \in FileNames \ {"sleep"}} \cup MainSleepNights
ArtifactDates == {artifact.data[j].date : j \in 1..Len(artifact.data)}

\* C4 as stated (date-union completeness over the raw inputs): when a run
\* has finished, the dates of the records written are exactly the dates of
\* all records of all input files, nap-only nights included, one record each.
C4_AsStated ==
  pc = "done" =>
    /\ ArtifactDates = AllInputDates
    /\ Len(artifact.data) = Cardinality(AllInputDates)

\* C4 amended: when a run has finished, the dates of the records written are
\* exactly the dates of the Apple, daily-sleep, activity, readiness and SpO2
\* records together with the nights that have a long_sleep or sleep session,
\* one record each; a night with nap sessions only adds no date.
C4_DateUnion ==
  pc = "done" =>
    /\ ArtifactDates = AllMapDates
    /\ Len(artifact.data) = Cardinality(AllMapDates)

\* A finished run whose inputs hold a date found in one file only, which has
\* its record, and a nap-only night, which has none.
C4_Witness ==
  /\ pc = "done"
  /\ \E d \in ArtifactDates : Cardinality({f \in FileNames : d \in DatesIn(f)}) = 1
  /\ \E d \in DatesIn("sleep") : d \notin MainSleepNights /\ d \notin ArtifactDates

\* C5 (sort invariant): the records built so far, and the records written,
\* are strictly ascending by date, so no date occurs twice.
C5_SortInvariant ==
  /\ \A j, k \in 1..Len(unified) : j < k => unified[j].date < unified[k].date
  /\ artifact # Null =>
       \A j, k \in 1..Len(artifact.data) :
          j < k => artifact.data[j].date < artifact.data[k].date

\* A finished run with two records written from a file that lists a later
\* date before an earlier one.
C5_Witness ==
  /\ pc = "done"
  /\ Len(artifact.data) = 2
  /\ \E f \in FileNames :
       /\ Len(files[f]) = 2
       /\ files[f][1][DateKey(f)] > files[f][2][DateKey(f)]

\* C6 (idempotence): a run that ends on inputs an earlier run has already
\* been built from writes exactly what the earlier run wrote.
C6_Idempotence ==
  [][(pc = "build" /\ pc' = "done" /\ artifact # Null) => artifact' = artifact]_vars

\* A second run, on the inputs of the first, about to write two records.
C6_Witness ==
  /\ pc = "build"
  /\ idx > Len(sortedDates)
  /\ artifact # Null
  /\ Len(unified) = 2

\* C7 (Sourced invariant): every non-null metric field of every record
\* emitted is a wrapper of a value and a source whose value is a number.
C7_SourcedInvariant ==
  \A r \in Emitted : \A m \in UnifiedDailyRecordFields :
    r[m] # Null =>
      /\ DOMAIN r[m] = {"value", "source"}
      /\ IsNum(r[m].value)

\* A record for a day whose Oura activity record lacks the activity times:
\* their sum is NaN, exercise minutes are null, and steps are wrapped.
C7_Witness ==
  \E r \in Emitted :
    /\ Reading("exerciseMinutes", "oura", r.date) = NaN
    /\ r.exerciseMinutes = Null
    /\ r.steps # Null

\* C8 (engine/table agreement): every metric field of every record emitted
\* is what walking [primary, ...fallback] of the metric's SOURCE_PRIORITIES
\* entry gives (the first listed source with a valid reading, else null), so
\* the tag of a non-null field is one of the metric's listed sources.
C8_EngineTableAgreement ==
  \A r \in Emitted : \A e \in Entries :
    /\ r[e.metric] = Prescribed(e.metric, Listed(e), r.date)
    /\ r[e.metric] # Null =>
         \E k \in 1..Len(Listed(e)) : r[e.metric].source = Listed(e)[k]

\* A record for a day with an Apple record full of readings and an Oura
\* readiness record: the Oura-only sleep score stays null and the Apple-only
\* VO2 max is tagged apple_health.
C8_Witness ==
  \E r \in Emitted :
    /\ MapHas(appleMap, r.date)
    /\ MapHas(ouraReadinessMap, r.date)
    /\ r.sleepScore = Null
    /\ r.vo2Max # Null
    /\ r.vo2Max.source = "apple_health"
    /\ r.hrv # Null

\* C9 (priority-table totality): SOURCE_PRIORITIES has exactly one entry for
\* every metric field of UnifiedDailyRecord and none for anything else, no
\* entry lists its primary among its fallbacks, and the records emitted have
\* exactly those metric fields.
C9_TableTotality ==
  /\ \A m \in UnifiedDailyRecordFields :
       Cardinality({j \in 1..Len(SOURCE_PRIORITIES) : SOURCE_PRIORITIES[j].metric = m}) = 1
  /\ \A j \in 1..Len(SOURCE_PRIORITIES) :
       /\ SOURCE_PRIORITIES[j].metric \in UnifiedDailyRecordFields
       /\ \A k \in 1..Len(SOURCE_PRIORITIES[j].fallback) :
            SOURCE_PRIORITIES[j].fallback[k] # SOURCE_PRIORITIES[j].primary
  /\ \A r \in Emitted : DOMAIN r = UnifiedDailyRecordFields \cup {"date"}

\* A record with a field of an entry that has a fallback and a field of an
\* entry that has none, both resolved.
C9_Witness ==
  \E r \in Emitted : r.steps # Null /\ r.sleepScore # Null

ZeroSentinelMetrics == {"steps", "activeCalories", "distanceMeters"}
ZeroOrNothing(v) == v \in {Num(0), Null, Undef}

\* C10 (sentinel zero is absence): for steps, active calories and distance,
\* a source reporting 0 counts as having no value: when the other source
\* reports a positive value the field carries it (normalized) with that
\* source's tag, and when every source reports 0 or nothing the field is null.
C10_SentinelZero ==
  \A r \in Emitted : \A m \in ZeroSentinelMetrics :
    LET a == Reading(m, "apple_health", r.date)
        o == Reading(m, "oura", r.date)
    IN /\ (a = Num(0) /\ Gt0(o)) =>
            r[m] = [value |-> Normalized(m, "oura", r.date), source |-> "oura"]
       /\ (o = Num(0) /\ Gt0(a)) =>
            r[m] = [value |-> Normalized(m, "apple_health", r.date),
                    source |-> "apple_health"]
       /\ (ZeroOrNothing(a) /\ ZeroOrNothing(o)) => r[m] = Null

\* A record for a day on which Apple reports 0 steps and Oura a positive
\* count: the steps are Oura's.
C10_Witness ==
  \E r \in Emitted :
    /\ Reading("steps", "apple_health", r.date) = Num(0)
    /\ Gt0(Reading("steps", "oura", r.date))
    /\ r.steps = [value |-> Reading("steps", "oura", r.date), source |-> "oura"]


(***************************************************************************)
(* The build on input files that may be missing or damaged.                *)
(***************************************************************************)
\* One record with readings for every file and day.
PlainRecords ==
  {[file |-> "apple", rec |-> AppleDay(d, Num(8000600), Num(58046))] : d \in Dates}
  \cup {[file |-> "daily_sleep", rec |-> OuraDailySleep(d, Num(85000))] : d \in Dates}
  \cup {[file |-> "sleep",
         rec |-> OuraSleepSession(d, "long_sleep", Num(27030000), Num(52340))] :
          d \in Dates}
  \cup {[file |-> "daily_activity",
         rec |-> OuraActivity(d, Num(7000400), Num(930000))] : d \in Dates}
  \cup {[file |-> "daily_readiness",
         rec |-> OuraReadiness(d, Num(80000), Num(0 - 255))] : d \in Dates}
  \cup {[file |-> "daily_spo2", rec |-> OuraSpO2(d, Num(96550), Num(3000))] :
          d \in Dates}

\* A mark says that a file is missing or damaged.
Marks ==
  {[file |-> f, state |-> st] : f \in FileNames, st \in DiskStates \ {"json"}}

MarkedFeeds == UNION {[1..n -> PlainRecords \cup Marks] : n \in 0..MaxRecords}

IsMark(e) == "state" \in DOMAIN e

\* The first mark of a file decides what is at its path; a file without a
\* mark is a JSON object with the file's records as its data array.
DiskOf(feed, f) ==
  LET marked == {j \in 1..Len(feed) : IsMark(feed[j]) /\ feed[j].file = f}
  IN IF marked = {} THEN "json"
     ELSE feed[CHOOSE j \in marked : \A k \in marked : j <= k].state

RecordsOf(feed) == SelectSeq(feed, LAMBDA e : ~IsMark(e))

InitFiles ==
  /\ \E feed \in MarkedFeeds :
        /\ disk = [f \in FileNames |-> DiskOf(feed, f)]
        /\ files = [f \in FileNames |->
                      IF DiskOf(feed, f) = "json"
                      THEN FileOf(RecordsOf(feed), f) ELSE <<>>]
  /\ FreshRun
  /\ NormalizerIdle
  /\ ChartIdle
  /\ RestIdle

\* One run of the script on files that may be missing or damaged.
SpecFiles == InitFiles /\ [][Next]_vars

\* The record the build keeps for a day from a file that exists.
KeptRecord(f, d) ==
  IF disk[f] # "json" THEN Undef
  ELSE IF f = "sleep" THEN MapGet(SleepMapFromSessions(<<>>, files[f]), d)
  ELSE MapGet(MapFromArray(<<>>, files[f], DateKey(f)), d)

\* The unified record the files that exist yield for a day.
AloneDay(d) ==
  UnifiedDay(d, KeptRecord("apple", d), KeptRecord("daily_sleep", d),
             KeptRecord("sleep", d), KeptRecord("daily_activity", d),
             KeptRecord("daily_readiness", d), KeptRecord("daily_spo2", d))

\* The dates of the files that exist.
PresentDates ==
  {d \in Dates : \E f \in FileNames : KeptRecord(f, d) # Undef}

\* C11 (missing input tolerance): when every input file either is missing
\* or holds a well-formed record list, the run does not fail, and a finished
\* run has written, for exactly the dates of the files that exist, the
\* record those files yield for the date.
C11_MissingInputTolerance ==
  (\A f \in FileNames : disk[f] \in {"json", "missing"}) =>
    /\ pc # "failed"
    /\ pc = "done" =>
         /\ ArtifactDates = PresentDates
         /\ \A j \in 1..Len(artifact.data) :
              artifact.data[j] = AloneDay(artifact.data[j].date)

\* A finished run with the Apple file missing that has written a record
\* from what an Oura file holds.
C11_Witness ==
  /\ pc = "done"
  /\ disk["apple"] = "missing"
  /\ \A f \in FileNames : disk[f] \in {"json", "missing"}
  /\ Len(artifact.data) >= 1
  /\ \E j \in 1..Len(artifact.data) :
       /\ artifact.data[j].steps # Null
       /\ artifact.data[j].steps.source = "oura"

\* C12 (fail-fast on malformed input): when an input file exists and is
\* unparsable, or is parsable without a record list, the run never gets to
\* the date axis, computes no record and writes no artifact.
C12_FailFast ==
  (\E f \in FileNames : disk[f] \in {"unparsable", "noData"}) =>
    /\ pc \in {"load", "failed"}
    /\ unified = <<>>
    /\ artifact = Null


(***************************************************************************)
(* The build run again and again while the normalizers rewrite its inputs. *)
(***************************************************************************)
\* Inputs that hold one record at most.
SingleRecordFeeds == {<<>>} \cup {<<x>> : x \in AllRecords}

InitReplace ==
  /\ \E feed \in SingleRecordFeeds : files = [f \in FileNames |-> FileOf(feed, f)]
  /\ disk = [f \in FileNames |-> "json"]
  /\ FreshRun
  /\ NormalizerIdle
  /\ ChartIdle
  /\ RestIdle

\* Between two runs the normalizers write the per-source files anew.
RewriteInputs ==
  /\ pc = "done"
  /\ \E feed \in SingleRecordFeeds :
        files' = [f \in FileNames |-> FileOf(feed, f)]
  /\ UNCHANGED <<disk, unifiedDir, pc, appleMap, ouraSleepDailyMap,
                 ouraSleepMap, ouraActivityMap, ouraReadinessMap, ouraSpO2Map,
                 sortedDates, idx, unified, sourceCounters, artifact, otherVars>>

NextReplace ==
  \/ LoadSources
  \/ CollectDates
  \/ BuildRecord
  \/ WriteOutput
  \/ RunAgain
  \/ RewriteInputs

SpecReplace == InitReplace /\ [][NextReplace]_vars

\* The elements of a set of days in ascending order.
RECURSIVE Ascending(_)
Ascending(S) ==
  IF S = {} THEN <<>>
  ELSE LET least == CHOOSE x \in S : \A y \in S : x <= y
       IN <<least>> \o Ascending(S \ {least})

\* What a run computes from the input files as they are.
ComputedFromInputs ==
  LET dates == Ascending(PresentDates)
  IN [j \in 1..Len(dates) |-> AloneDay(dates[j])]

\* C13 (full replacement): whatever artifact earlier runs have left, every
\* run that ends writes exactly the records computed from the input files
\* as they are in that run; nothing of the artifact found before survives
\* unless the inputs yield it again.
C13_FullReplacement ==
  [][(pc = "build" /\ pc' = "done") => artifact' = [data |-> ComputedFromInputs]]_vars

\* A run about to write one record while the artifact of an earlier run
\* holds a record for a date that the inputs no longer have.
C13_Witness ==
  /\ pc = "build"
  /\ idx > Len(sortedDates)
  /\ Len(unified) = 1
  /\ artifact # Null
  /\ \E j \in 1..Len(artifact.data) : artifact.data[j].date \notin PresentDates


\* The records of a file that are keyed by day d.
KeyedBy(f, d) == SelectSeq(files[f], LAMBDA x : x[DateKey(f)] = d)

\* The record the build keeps for day d when the file holds nothing but
\* its records keyed by d.
KeptOfDay(f, d) ==
  IF f = "sleep" THEN MapGet(SleepMapFromSessions(<<>>, KeyedBy(f, d)), d)
  ELSE MapGet(MapFromArray(<<>>, KeyedBy(f, d), DateKey(f)), d)

\* The unified records for day d that the records keyed by d yield by
\* themselves: none when no file keeps a record for d, one otherwise.
DayByItself(d) ==
  IF \A f \in FileNames : KeptOfDay(f, d) = Undef THEN {}
  ELSE {UnifiedDay(d, KeptOfDay("apple", d), KeptOfDay("daily_sleep", d),
                   KeptOfDay("sleep", d), KeptOfDay("daily_activity", d),
                   KeptOfDay("daily_readiness", d), KeptOfDay("daily_spo2", d))}

\* C14 (per-date independence): the unified record a finished run has
\* written for a day, and whether it has written one, is what the input
\* records keyed by that day yield by themselves; the records of other
\* days have no part in it, so two input sets that agree on the day get
\* the same record for it.
C14_PerDateIndependence ==
  pc = "done" =>
    \A d \in Dates :
      {artifact.data[j] : j \in {k \in 1..Len(artifact.data) : artifact.data[k].date = d}}
        = DayByItself(d)

\* A finished run on two main sleep sessions of different nights, the
\* earlier one the longer, with a record written for each night.
C14_Witness ==
  /\ pc = "done"
  /\ Len(files["sleep"]) = 2
  /\ files["sleep"][1].day # files["sleep"][2].day
  /\ JsGt(files["sleep"][1].total_sleep_duration, files["sleep"][2].total_sleep_duration)
  /\ Len(artifact.data) = 2


\* C15 (source files are read-only): no step of a run changes what is at
\* the path of any per-source file (a missing file stays missing, a file
\* keeps its content); the only step that writes is the last one, which
\* writes the unified artifact and makes its directory.
C15_SourceFilesReadOnly ==
  [][ /\ files' = files
      /\ disk' = disk
      /\ (artifact' # artifact \/ unifiedDir' # unifiedDir)
           => (pc = "build" /\ pc' = "done" /\ unifiedDir') ]_vars

\* A finished run that has made the directory and written its artifact
\* while the Apple file is still missing and an Oura file still holds its
\* records.
C15_Witness ==
  /\ pc = "done"
  /\ unifiedDir
  /\ artifact # Null
  /\ disk["apple"] = "missing"
  /\ files["apple"] = <<>>
  /\ \E f \in FileNames : Len(files[f]) = 1


(***************************************************************************)
(* The build on a sleep.json with several sessions per night.              *)
(***************************************************************************)
\* Number of sessions held by sleep.json.
MaxSessions == 3

\* Main sessions of different lengths, two of the same length, a session
\* without a duration, and a nap longer than all of them.
NightReadings ==
  { <<"long_sleep", Num(27030000), Num(52340)>>,
    <<"sleep", Num(3620000), Null>>,
    <<"sleep", Num(27030000), Num(48000)>>,
    <<"long_sleep", Null, Num(0)>>,
    <<"late_nap", Num(30000000), Num(61000)>> }

Sessions == {OuraSleepSession(d, r[1], r[2], r[3]) : d \in Dates, r \in NightReadings}

InitSessions ==
  /\ \E sessions \in UNION {[1..n -> Sessions] : n \in 0..MaxSessions} :
        files = [f \in FileNames |-> IF f = "sleep" THEN sessions ELSE <<>>]
  /\ disk = [f \in FileNames |-> "json"]
  /\ FreshRun
  /\ NormalizerIdle
  /\ ChartIdle
  /\ RestIdle

SpecSessions == InitSessions /\ [][Next]_vars

\* The sessions of sleep.json for a night that are of a main-sleep type.
MainSessions(d) ==
  {files["sleep"][j] : j \in {k \in 1..Len(files["sleep"]) :
       /\ files["sleep"][k].day = d
       /\ files["sleep"][k].type \in {"long_sleep", "sleep"}}}

\* total_sleep_duration as the comparison reads it (null counts as 0).
DurationOf(session) == ToNumber(session.total_sleep_duration).n

\* C17 (main-sleep session selection): once sleep.json is loaded, a night
\* has a kept session exactly when it has a session of type long_sleep or
\* sleep; the kept session is one of those and none of those is longer;
\* every record emitted takes its Oura sleep readings from the kept
\* session, so a nap never becomes the kept session nor adds to a record.
C17_MainSleepSelection ==
  pc \in {"collect", "build", "done"} =>
    /\ \A d \in Dates :
         /\ MapHas(ouraSleepMap, d) <=> MainSessions(d) # {}
         /\ MapHas(ouraSleepMap, d) =>
              /\ MapGet(ouraSleepMap, d) \in MainSessions(d)
              /\ \A x \in MainSessions(d) :
                   DurationOf(MapGet(ouraSleepMap, d)) >= DurationOf(x)
    /\ \A r \in Emitted :
         r = UnifiedDay(r.date, MapGet(appleMap, r.date),
                        MapGet(ouraSleepDailyMap, r.date),
                        MapGet(ouraSleepMap, r.date),
                        MapGet(ouraActivityMap, r.date),
                        MapGet(ouraReadinessMap, r.date),
                        MapGet(ouraSpO2Map, r.date))

\* A night whose sessions are a short main session, then a nap longer than
\* any main session, then the longest main session: the record emitted has
\* the sleep duration of the last one (27030 s are 451 minutes).
C17_Witness ==
  /\ Len(files["sleep"]) = 3
  /\ \E r \in Emitted :
       /\ \A j \in 1..3 : files["sleep"][j].day = r.date
       /\ files["sleep"][1].total_sleep_duration = Num(3620000)
       /\ files["sleep"][2].type = "late_nap"
       /\ files["sleep"][3].total_sleep_duration = Num(27030000)
       /\ r.sleepDurationMinutes = [value |-> Num(451000), source |-> "oura"]


(***************************************************************************)
(* The Apple Health normalizer (src/unnamed/part_008).                     *)
(*                                                                         *)
(* A line of export.xml is a record of the attributes parseRecordLine      *)
(* reads: type, value (Null when the attribute is missing, a Num when its  *)
(* text is a number, a text otherwise), unit, the day and the hour of      *)
(* startDate, and the minutes from startDate to endDate.                   *)
(***************************************************************************)
Text(str) == [t |-> "text", s |-> str]

\* The daily aggregation Maps, empty.
EmptyDaily ==
  [name \in {"dailySteps", "dailyActiveCalories", "dailyDistance",
             "dailyExerciseMinutes", "dailyHeartRates", "dailyRestingHR",
             "dailyHRV", "dailyRespiratoryRate", "dailyOxygenSaturation",
             "dailyVO2Max", "dailyWristTemp", "sleepInBed", "sleepAsleep",
             "sleepCore", "sleepDeep", "sleepREM", "sleepAwake"} |-> <<>>]

\* The Map each summed quantity type is added to.
SumMapOf ==
  [HKQuantityTypeIdentifierStepCount |-> "dailySteps",
   HKQuantityTypeIdentifierActiveEnergyBurned |-> "dailyActiveCalories",
   HKQuantityTypeIdentifierDistanceWalkingRunning |-> "dailyDistance",
   HKQuantityTypeIdentifierAppleExerciseTime |-> "dailyExerciseMinutes"]

\* The Map each sampled quantity type is pushed to.
SampleMapOf ==
  [HKQuantityTypeIdentifierHeartRate |-> "dailyHeartRates",
   HKQuantityTypeIdentifierRestingHeartRate |-> "dailyRestingHR",
   HKQuantityTypeIdentifierHeartRateVariabilitySDNN |-> "dailyHRV",
   HKQuantityTypeIdentifierRespiratoryRate |-> "dailyRespiratoryRate",
   HKQuantityTypeIdentifierOxygenSaturation |-> "dailyOxygenSaturation",
   HKQuantityTypeIdentifierVO2Max |-> "dailyVO2Max",
   HKQuantityTypeIdentifierAppleSleepingWristTemperature |-> "dailyWristTemp"]

\* The Map each sleep category is added to.
SleepMapOf ==
  [HKCategoryValueSleepAnalysisInBed |-> "sleepInBed",
   HKCategoryValueSleepAnalysisAsleepUnspecified |-> "sleepAsleep",
   HKCategoryValueSleepAnalysisAsleepCore |-> "sleepCore",
   HKCategoryValueSleepAnalysisAsleepDeep |-> "sleepDeep",
   HKCategoryValueSleepAnalysisAsleepREM |-> "sleepREM",
   HKCategoryValueSleepAnalysisAwake |-> "sleepAwake"]

\* value ? parseFloat(value) : null
numValueOf(value) ==
  IF value = Null THEN Null ELSE IF IsNum(value) THEN value ELSE NaN

\* map.set(date, (map.get(date) || 0) + x)
AddTo(m, date, x) ==
  LET old == MapGet(m, date)
  IN MapSet(m, date, JsAdd(IF Truthy(old) THEN old ELSE Num(0), x))

\* if (!map.has(date)) map.set(date, []); map.get(date).push(x)
PushTo(m, date, x) ==
  MapSet(m, date, Append(IF MapHas(m, date) THEN MapGet(m, date) ELSE <<>>, x))

\* Hours between UTC and the host's local time at a UTC instant (in hours
\* since day 0, 00:00 UTC) and at a local wall-clock time: the host's clocks
\* go back from summer to winter time at 03:00 summer time of fallBackDay.
OffsetAtInstant(zone, u) ==
  IF u < 24 * zone.fallBackDay + 3 - zone.summer THEN zone.summer ELSE zone.winter

OffsetAtWallClock(zone, w) ==
  IF w < 24 * zone.fallBackDay + 3 THEN zone.summer ELSE zone.winter

\* const d = new Date(date);          (the date at 00:00 UTC)
\* d.setDate(d.getDate() - 1);        (one day back on the local clock)
\* return d.toISOString().slice(0, 10);   (the UTC date of the result)

PreviousDay(zone, date) ==
  LET t == 24 * date
      localTime == t + OffsetAtInstant(zone, t)
      wallClock == localTime - 24
      utc == wallClock - OffsetAtWallClock(zone, wallClock)
  IN utc \div 24

getSleepNightDate(zone, line) ==
  IF line.hour < 6 THEN PreviousDay(zone, line.date) ELSE line.date

\* The daily Maps after parseRecordLine(line).  Body mass and height go to
\* a list of their own, which is no part of the daily output.
parseRecordLine(maps, zone, line) ==
  LET type == line.type
      value == line.value
      date == line.date
      numValue == numValueOf(value)
      isNumber == numValue # Null /\ numValue # NaN
  IN IF type \in DOMAIN SumMapOf
     THEN IF ~isNumber THEN maps
          ELSE LET distanceM ==
                     IF type = "HKQuantityTypeIdentifierDistanceWalkingRunning"
                        /\ line.unit = "km"
                     THEN Num(numValue.n * Scale) ELSE numValue
               IN [maps EXCEPT ![SumMapOf[type]] = AddTo(@, date, distanceM)]
     ELSE IF type \in DOMAIN SampleMapOf
     THEN IF ~isNumber THEN maps
          ELSE LET spO2 ==
                     IF type = "HKQuantityTypeIdentifierOxygenSaturation"
                        /\ numValue.n <= Scale
                     THEN Num(numValue.n * 100) ELSE numValue
               IN [maps EXCEPT ![SampleMapOf[type]] = PushTo(@, date, spO2)]
     ELSE IF type = "HKCategoryTypeIdentifierSleepAnalysis"
     THEN IF value = Null THEN maps
          ELSE LET nightDate == getSleepNightDate(zone, line)
                   duration == line.minutes
               IN IF duration.n > 0 /\ duration.n < 1440 * Scale
                     /\ value.t = "text" /\ value.s \in DOMAIN SleepMapOf
                  THEN [maps EXCEPT ![SleepMapOf[value.s]] =
                                       AddTo(@, nightDate, duration)]
                  ELSE maps
     ELSE maps

\* for await (const line of rl) ... parseRecordLine(trimmed)
ParseRecordLine ==
  /\ lineCount < Len(xmlLines)
  /\ lineCount' = lineCount + 1
  /\ daily' = parseRecordLine(daily, hostZone, xmlLines[lineCount + 1])
  /\ UNCHANGED <<hostZone, xmlLines, dailyData, chartVars, restVars>>
  /\ UNCHANGED <<files, disk, unifiedDir, pc, appleMap, ouraSleepDailyMap,
                 ouraSleepMap, ouraActivityMap, ouraReadinessMap, ouraSpO2Map,
                 sortedDates, idx, unified, sourceCounters, artifact>>

\* Math.round((arr.reduce((a, b) => a + b, 0) / arr.length) * 10) / 10
RECURSIVE SumOf(_)
SumOf(arr) == IF arr = <<>> THEN 0 ELSE Head(arr).n + SumOf(Tail(arr))

avg(arr) ==
  IF Len(arr) = 0 THEN Null
  ELSE Num(RoundHalfUp(SumOf(arr) * 10, Scale * Len(arr)) * (Scale \div 10))

\* [...heartRates].sort((a, b) => a - b)
RECURSIVE InsertNumber(_, _)
InsertNumber(sorted, x) ==
  IF sorted = <<>> THEN <<x>>
  ELSE IF x.n < Head(sorted).n THEN <<x>> \o sorted
  ELSE <<Head(sorted)>> \o InsertNumber(Tail(sorted), x)

RECURSIVE SortNumbers(_)
SortNumbers(arr) ==
  IF arr = <<>> THEN <<>>
  ELSE InsertNumber(SortNumbers(SubSeq(arr, 1, Len(arr) - 1)), arr[Len(arr)])

\* map.get(date) || []
SamplesOf(m, date) == IF MapHas(m, date) THEN MapGet(m, date) ELSE <<>>

\* map.get(date) || 0
MinutesOf(m, date) ==
  LET v == MapGet(m, date) IN IF Truthy(v) THEN v ELSE Num(0)

\* The resting heart rate of a day: the official samples if there are any,
\* otherwise an estimate from the lowest tenth of the day's heart rates.
\* (restingHRValues is the empty list when the Map has no entry.)
restingHROf(restingHRValues, heartRates) ==
  IF Len(restingHRValues) > 0
  THEN avg(restingHRValues)
  ELSE IF Len(heartRates) > 10
  THEN LET sorted == SortNumbers(heartRates)
           lowest10Pct == SubSeq(sorted, 1, (Len(sorted) + 9) \div 10)
       IN avg(lowest10Pct)
  ELSE Null

\* The Maps whose keys make up allDates, in the order they are walked.
DateMaps ==
  <<"dailySteps", "dailyActiveCalories", "dailyDistance", "dailyHeartRates",
    "dailyHRV", "dailyRestingHR", "dailyRespiratoryRate",
    "dailyOxygenSaturation", "sleepInBed", "sleepAsleep", "sleepCore",
    "sleepDeep", "sleepREM">>

RECURSIVE KeysOfAll(_, _)
KeysOfAll(maps, names) ==
  IF names = <<>> THEN <<>>
  ELSE SetAddAll(KeysOfAll(maps, SubSeq(names, 1, Len(names) - 1)),
                 MapKeys(maps[names[Len(names)]]))

\* The record pushed for one date.
DailyRecord(maps, date) ==
  LET heartRates == SamplesOf(maps.dailyHeartRates, date)
      core == MinutesOf(maps.sleepCore, date)
      deep == MinutesOf(maps.sleepDeep, date)
      rem == MinutesOf(maps.sleepREM, date)
      unspecified == MinutesOf(maps.sleepAsleep, date)
      awake == MinutesOf(maps.sleepAwake, date)
      sleepFromStages == JsAdd(JsAdd(core, deep), rem)
      totalSleep == IF Gt0(sleepFromStages) THEN sleepFromStages ELSE unspecified
      RoundedIfPositive(v) == IF Gt0(v) THEN MathRound(v) ELSE Null
  IN [date |-> date,
      steps |-> MathRound(MinutesOf(maps.dailySteps, date)),
      activeCalories |-> MathRound(MinutesOf(maps.dailyActiveCalories, date)),
      distance |-> MathRound(MinutesOf(maps.dailyDistance, date)),
      exerciseMinutes |-> MathRound(MinutesOf(maps.dailyExerciseMinutes, date)),
      standHours |-> Num(0),
      restingHeartRate |->
        restingHROf(SamplesOf(maps.dailyRestingHR, date), heartRates),
      avgHeartRate |-> avg(heartRates),
      hrv |-> avg(SamplesOf(maps.dailyHRV, date)),
      respiratoryRate |-> avg(SamplesOf(maps.dailyRespiratoryRate, date)),
      oxygenSaturation |-> avg(SamplesOf(maps.dailyOxygenSaturation, date)),
      sleepDuration |-> RoundedIfPositive(totalSleep),
      sleepInBed |-> IF MapHas(maps.sleepInBed, date)
                     THEN MathRound(MapGet(maps.sleepInBed, date)) ELSE Null,
      sleepCore |-> RoundedIfPositive(core),
      sleepDeep |-> RoundedIfPositive(deep),
      sleepREM |-> RoundedIfPositive(rem),
      sleepAwake |-> RoundedIfPositive(awake),
      wristTemperature |-> avg(SamplesOf(maps.dailyWristTemp, date)),
      vo2Max |-> avg(SamplesOf(maps.dailyVO2Max, date))]

buildDailyData(maps) ==
  LET dates == ArraySort(KeysOfAll(maps, DateMaps))
  IN [j \in 1..Len(dates) |-> DailyRecord(maps, dates[j])]

\* JSON.stringify writes NaN as null and every other number as it is.
JsonNumber(v) == IF v = NaN THEN Null ELSE v

\* JSON.stringify({ data: dailyData }) as JSON.parse reads it back.
SavedDaily(data) ==
  [j \in 1..Len(data) |->
     [f \in DOMAIN data[j] |->
        IF f = "date" THEN data[j][f] ELSE JsonNumber(data[j][f])]]

\* main(): const dailyData = buildDailyData(), once the export is read, and
\* fs.writeFileSync(dailyPath, ...) to DATA/apple_health/daily_data.json.
BuildDailyData ==
  /\ lineCount = Len(xmlLines)
  /\ dailyData = Null
  /\ dailyData' = [data |-> buildDailyData(daily)]
  /\ files' = [files EXCEPT !["apple"] = SavedDaily(buildDailyData(daily))]
  /\ disk' = [disk EXCEPT !["apple"] = "json"]
  /\ UNCHANGED <<hostZone, xmlLines, lineCount, daily, chartVars, restVars>>
  /\ UNCHANGED <<unifiedDir, pc, appleMap, ouraSleepDailyMap,
                 ouraSleepMap, ouraActivityMap, ouraReadinessMap, ouraSpO2Map,
                 sortedDates, idx, unified, sourceCounters, artifact>>

NextNormalizer ==
  \/ ParseRecordLine
  \/ BuildDailyData

\* The unified build is not running and its files are empty.
BuildIdle ==
  /\ files = [f \in FileNames |-> <<>>]
  /\ disk = [f \in FileNames |-> "json"]
  /\ FreshRun

\* Number of Record lines of an export.
MaxLines == 2

\* The host's time zone: UTC, or a zone two hours ahead of UTC in summer
\* and one in winter (Europe/Stockholm) whose clocks go back on a day that
\* has a next day among the days of the export.
HostZones ==
  {[summer |-> 0, winter |-> 0, fallBackDay |-> 0]}
  \cup {[summer |-> 2, winter |-> 1, fallBackDay |-> d] : d \in 1..(MaxDate - 1)}

QuantityLine(type, value, d) ==
  [type |-> type, value |-> value, unit |-> "count", date |-> d, hour |-> 12,
   minutes |-> Num(0)]

SleepLine(category, d, hour, minutes) ==
  [type |-> "HKCategoryTypeIdentifierSleepAnalysis", value |-> Text(category),
   unit |-> "", date |-> d, hour |-> hour, minutes |-> minutes]

\* Step counts (a zero among them), a heart-rate sample, exercise minutes,
\* and sleep stages that start just before and at the 06:00 cutoff.
ExportLines ==
  {QuantityLine("HKQuantityTypeIdentifierStepCount", v, d) :
      v \in {Num(0), Num(2500500)}, d \in Dates}
  \cup {QuantityLine("HKQuantityTypeIdentifierHeartRate", Num(61000), d) : d \in Dates}
  \cup {QuantityLine("HKQuantityTypeIdentifierAppleExerciseTime", Num(30000), d) :
          d \in Dates}
  \cup {SleepLine(c, d, h, Num(90500)) :
          c \in {"HKCategoryValueSleepAnalysisAsleepCore",
                 "HKCategoryValueSleepAnalysisAwake"},
          d \in Dates, h \in {5, 6}}

InitNormalizer ==
  /\ hostZone \in HostZones
  /\ xmlLines \in UNION {[1..n -> ExportLines] : n \in 0..MaxLines}
  /\ lineCount = 0
  /\ daily = EmptyDaily
  /\ dailyData = Null
  /\ BuildIdle
  /\ ChartIdle
  /\ RestIdle

\* One run of the normalizer on an export.
SpecNormalizer == InitNormalizer /\ [][NextNormalizer]_vars

\* The night the claim gives a sleep line: the calendar day before its
\* start date when it starts before 06:00, its start date otherwise.
ClaimedNight(line) == IF line.hour < 6 THEN line.date - 1 ELSE line.date

\* The minutes of the sleep lines read so far of one category and night.
RECURSIVE MinutesRead(_, _, _)
MinutesRead(n, category, night) ==
  IF n = 0 THEN 0
  ELSE MinutesRead(n - 1, category, night)
       + (IF /\ xmlLines[n].type = "HKCategoryTypeIdentifierSleepAnalysis"
             /\ xmlLines[n].value = Text(category)
             /\ ClaimedNight(xmlLines[n]) = night
          THEN xmlLines[n].minutes.n ELSE 0)

\* C16 (sleep-night attribution): at every point of the reading of the
\* export, the minutes accumulated for a sleep category under a day are the
\* minutes of the lines read so far of that category that start on that
\* day at 06:00 or later, or on the next calendar day before 06:00.
C16_SleepNightAttribution ==
  \A category \in DOMAIN SleepMapOf : \A night \in (0 - 1)..MaxDate :
    MinutesOf(daily[SleepMapOf[category]], night)
      = Num(MinutesRead(lineCount, category, night))

\* The numbers of the lines of one quantity type and day, in reading order.
ReadingsOf(type, d) ==
  LET lines == SelectSeq(xmlLines,
                 LAMBDA l : l.type = type /\ l.date = d /\ IsNum(numValueOf(l.value)))
  IN [j \in 1..Len(lines) |-> numValueOf(lines[j].value)]

\* An export of heart-rate samples of one day: up to MaxSamples samples,
\* the higher ones first, after an official resting value or without one.
MaxSamples == 11

HeartRateExports ==
  {explicit \o [j \in 1..n |->
       QuantityLine("HKQuantityTypeIdentifierHeartRate",
                    IF j <= high THEN Num(80000) ELSE Num(52500), 1)] :
     n \in 0..MaxSamples, high \in 0..MaxSamples,
     explicit \in {<<>>, <<QuantityLine("HKQuantityTypeIdentifierRestingHeartRate",
                                        Num(49000), 1)>>}}

InitHeartRate ==
  /\ hostZone = [summer |-> 0, winter |-> 0, fallBackDay |-> 0]
  /\ xmlLines \in HeartRateExports
  /\ lineCount = 0
  /\ daily = EmptyDaily
  /\ dailyData = Null
  /\ BuildIdle
  /\ ChartIdle
  /\ RestIdle

\* One run of the normalizer on an export of heart-rate samples.
SpecHeartRate == InitHeartRate /\ [][NextNormalizer]_vars

\* C18 (resting-HR estimate): in every daily record built, the resting heart
\* rate is the average of the day's official resting samples when there are
\* any; otherwise, with at least 10 heart-rate samples, the average of the
\* lowest tenth of them (rounded up to whole samples); otherwise null.
C18_RestingHREstimate ==
  dailyData # Null =>
    \A j \in 1..Len(dailyData.data) :
      LET r == dailyData.data[j]
          official == ReadingsOf("HKQuantityTypeIdentifierRestingHeartRate", r.date)
          samples == SortNumbers(ReadingsOf("HKQuantityTypeIdentifierHeartRate", r.date))
      IN r.restingHeartRate =
           IF Len(official) > 0 THEN avg(official)
           ELSE IF Len(samples) >= 10
           THEN avg(SubSeq(samples, 1, (Len(samples) + 9) \div 10))
           ELSE Null

\* The quantity type behind each field of a daily record that holds a sum
\* or an average of the day's readings of one type.
TypeOfField ==
  [steps |-> "HKQuantityTypeIdentifierStepCount",
   activeCalories |-> "HKQuantityTypeIdentifierActiveEnergyBurned",
   distance |-> "HKQuantityTypeIdentifierDistanceWalkingRunning",
   exerciseMinutes |-> "HKQuantityTypeIdentifierAppleExerciseTime",
   avgHeartRate |-> "HKQuantityTypeIdentifierHeartRate",
   hrv |-> "HKQuantityTypeIdentifierHeartRateVariabilitySDNN",
   respiratoryRate |-> "HKQuantityTypeIdentifierRespiratoryRate",
   oxygenSaturation |-> "HKQuantityTypeIdentifierOxygenSaturation",
   wristTemperature |-> "HKQuantityTypeIdentifierAppleSleepingWristTemperature",
   vo2Max |-> "HKQuantityTypeIdentifierVO2Max"]

\* C19 (absence is not zero at the normalizer boundary): in every daily
\* record built, a summed or averaged metric for which the export holds no
\* parsable reading on the record's day is null.
C19_AbsenceIsNotZero ==
  dailyData # Null =>
    \A j \in 1..Len(dailyData.data) : \A field \in DOMAIN TypeOfField :
      ReadingsOf(TypeOfField[field], dailyData.data[j].date) = <<>>
        => dailyData.data[j][field] = Null


(***************************************************************************)
(* The moving average of the chart pages: computeMA of                     *)
(* src/pages/apple-health.tsx (the same function is in two more pages).    *)
(* A point is [x, y]: x the day number of its ISO date, so that            *)
(* new Date(x).getTime() is x * 86400000, and y a number or null.          *)
(***************************************************************************)
\* Points of a series, days of its dates, and widths of the window.
MaxPoints == 3
MaxDay == 3
MaxWindow == 2

\* points.filter(p => p.y !== null)
validOf(pts) == SelectSeq(pts, LAMBDA p : p.y # Null)

\* The backward scan from j: it stops at the first point older than cutoff.
RECURSIVE ScanBack(_, _, _, _, _)
ScanBack(valid, j, cutoff, sum, count) ==
  IF j < 1 THEN [sum |-> sum, count |-> count]
  ELSE IF valid[j].x < cutoff THEN [sum |-> sum, count |-> count]
  ELSE ScanBack(valid, j - 1, cutoff, sum + valid[j].y.n, count + 1)

\* Math.round(sum / count * 10) / 10
MeanToOneDecimal(sum, count) ==
  Num(RoundHalfUp(sum * 10, Scale * count) * (Scale \div 10))

\* The window is the last windowDays + 1 points, whatever their dates.
computeMA_byIndex(pts, days) ==
  LET valid == validOf(pts)
      From(i) == IF i > days THEN i - days ELSE 1
      Total(i) == ScanBack(SubSeq(valid, From(i), i), i - From(i) + 1, 0, 0, 0)
  IN [i \in 1..Len(valid) |->
        [x |-> valid[i].x, y |-> MeanToOneDecimal(Total(i).sum, Total(i).count)]]

\* Every valid point gets a result point: the scan counts point i itself,
\* so count is never 0.

computeMA(pts, days) ==
  LET valid == validOf(pts)
      Total(i) == ScanBack(valid, i, valid[i].x - days, 0, 0)
  IN [i \in 1..Len(valid) |->
        [x |-> valid[i].x, y |-> MeanToOneDecimal(Total(i).sum, Total(i).count)]]

ChartPoints == [x : 1..MaxDay, y : {Null, Num(10000), Num(20500), Num(58046)}]

InitChart ==
  /\ points \in UNION {[1..n -> ChartPoints] : n \in 0..MaxPoints}
  /\ windowDays \in 0..MaxWindow
  /\ maResult = Null
  /\ BuildIdle
  /\ NormalizerIdle
  /\ RestIdle

\* A page computes the moving average of its series.
ComputeMA ==
  /\ maResult = Null
  /\ maResult' = [line |-> computeMA(points, windowDays)]
  /\ UNCHANGED <<points, windowDays, normalizerVars, restVars>>
  /\ UNCHANGED <<files, disk, unifiedDir, pc, appleMap, ouraSleepDailyMap,
                 ouraSleepMap, ouraActivityMap, ouraReadinessMap, ouraSpO2Map,
                 sortedDates, idx, unified, sourceCounters, artifact>>

SpecChart == InitChart /\ [][ComputeMA]_vars

\* The series is in ascending order of date.
DateAscending == \A j, k \in 1..Len(points) : j < k => points[j].x <= points[k].x

\* The non-null points up to the i-th non-null point whose date is at most
\* days calendar days before the date of that point.
InWindow(i, days) ==
  LET valid == validOf(points)
  IN SelectSeq(SubSeq(valid, 1, i), LAMBDA p : valid[i].x - p.x <= days)

RECURSIVE SumOfY(_)
SumOfY(pts) == IF pts = <<>> THEN 0 ELSE Head(pts).y.n + SumOfY(Tail(pts))

\* C20 (moving-average window): for a date-ascending series the result has
\* one point for each non-null point of the series, in order and with its
\* date, whose value is the mean, to one decimal, of the non-null points up
\* to it that lie at most windowDays calendar days before it; so the scan
\* that stops early gives what filtering all earlier points by date gives.
C20_MovingAverageWindow ==
  (maResult # Null /\ DateAscending) =>
    /\ Len(maResult.line) = Len(validOf(points))
    /\ \A i \in 1..Len(maResult.line) :
         /\ maResult.line[i].x = validOf(points)[i].x
         /\ maResult.line[i].y =
              MeanToOneDecimal(SumOfY(InWindow(i, windowDays)),
                               Len(InWindow(i, windowDays)))

\* A moving average computed with a window of one day for three non-null
\* points in ascending order with a gap before the last one: the mean at
\* the last point is its own value although another point is one position
\* before it, and the mean at the second point takes in the first.
C20_Witness ==
  /\ maResult # Null
  /\ DateAscending
  /\ windowDays = 1
  /\ Len(points) = 3
  /\ \A j \in 1..3 : points[j].y # Null
  /\ points[3].x - points[2].x > windowDays
  /\ maResult.line[3].y = points[3].y
  /\ maResult.line[2].y # points[2].y

\* C21 (moving average of a single point): for a series with exactly one
\* non-null point, whatever the window, the result is that one point, with
\* its date and its value unchanged.
C21_SinglePointUnchanged ==
  (maResult # Null /\ Len(validOf(points)) = 1) =>
    maResult.line = validOf(points)

\* ---------------------------------------------------------------------------
\* The source-usage tally of the build
\* ---------------------------------------------------------------------------

MetricNames == {metrics[i] : i \in 1..Len(metrics)}

\* The tags a Sourced value can carry.
SourceTags == {"apple_health", "oura"}

\* sourceCounters[metric][source], 0 where the counter was never created.
CounterOf(m, s) ==
  IF m \in DOMAIN sourceCounters /\ s \in DOMAIN sourceCounters[m]
  THEN sourceCounters[m][s] ELSE 0

\* The records emitted so far whose field m carries a value tagged s.
TaggedSoFar(m, s) ==
  {j \in 1..Len(unified) : unified[j][m] # Null /\ unified[j][m].source = s}

\* C26 (source-usage tally): after any prefix of the dates has been
\* processed, for every metric and every source the counter
\* sourceCounters[metric][source] equals the number of unified records
\* emitted so far whose field for that metric is non-null and tagged with
\* that source, and no counter exists for anything else.
C26_SourceUsageTally ==
  /\ \A m \in MetricNames : \A s \in SourceTags :
        CounterOf(m, s) = Cardinality(TaggedSoFar(m, s))
  /\ DOMAIN sourceCounters \subseteq MetricNames
  /\ \A m \in DOMAIN sourceCounters :
        DOMAIN sourceCounters[m] \subseteq SourceTags

\* Two records have been emitted and one counter has reached 2 while the
\* build is still running or has finished.
C26_Witness ==
  /\ Len(unified) = 2
  /\ \E m \in MetricNames : \E s \in SourceTags :
        CounterOf(m, s) = 2 /\ Cardinality(TaggedSoFar(m, s)) = 2

\* C27 (no zero-valued activity field): in every unified record each of
\* steps, activeCalories, distanceMeters and exerciseMinutes is either null
\* or a Sourced value strictly greater than 0, whichever source supplied it.
ActivityFields == {"steps", "activeCalories", "distanceMeters", "exerciseMinutes"}

C27_NoZeroActivityField ==
  \A r \in Emitted : \A m \in ActivityFields :
    r[m] = Null \/ Gt0(r[m].value)

\* ---------------------------------------------------------------------------
\* The daily output of the normalizer against the lines of the export
\* ---------------------------------------------------------------------------

SummedFields == {"steps", "activeCalories", "distance", "exerciseMinutes"}

AveragedFields ==
  {"avgHeartRate", "hrv", "oxygenSaturation", "respiratoryRate", "vo2Max",
   "wristTemperature"}

\* The records of the daily output for one date.
DailyOf(d) == {j \in 1..Len(dailyData.data) : dailyData.data[j].date = d}

\* C23 (event aggregation): once the export is read and the daily output
\* built, for every day with readings of an additive metric the day's record
\* carries their sum, and for every day with samples of a point-sample
\* metric the day's record carries their mean rounded to one decimal; the
\* sum and the mean are of the day's readings whatever the order of the
\* lines.
C23_EventAggregation ==
  dailyData # Null =>
    \A d \in Dates : \A field \in SummedFields \cup AveragedFields :
      LET readings == ReadingsOf(TypeOfField[field], d)
      IN readings # <<>> =>
           /\ DailyOf(d) # {}
           /\ \A j \in DailyOf(d) :
                dailyData.data[j][field] =
                  IF field \in SummedFields
                  THEN Num(SumOf(readings))
                  ELSE MeanToOneDecimal(SumOf(readings), Len(readings))

\* The dates under which the reading of the export accumulated anything.
AccumulatedDates ==
  {d \in (0 - 1)..MaxDate : \E name \in DOMAIN daily : MapHas(daily[name], d)}

\* C28 (date completeness of the normalizer): every date under which at
\* least one reading of any metric was accumulated, exercise minutes, VO2
\* max, wrist temperature and awake sleep included, is the date of exactly
\* one record of the daily output, and the output is in ascending date
\* order.
C28_DateCompleteness ==
  dailyData # Null =>
    /\ \A d \in AccumulatedDates : Cardinality(DailyOf(d)) = 1
    /\ \A j \in 1..(Len(dailyData.data) - 1) :
          dailyData.data[j].date < dailyData.data[j + 1].date

(***************************************************************************)
(* The normalizer and the unified build on the same DATA directory: the    *)
(* normalizer writes DATA/apple_health/daily_data.json, which the build    *)
(* loads.  The two scripts are started by hand, in any order.              *)
(***************************************************************************)
\* Oxygen-saturation samples as a fraction and as a percentage.
SpO2Lines ==
  {QuantityLine("HKQuantityTypeIdentifierOxygenSaturation", v, d) :
      v \in {Num(975), Num(96500)}, d \in Dates}

\* A main sleep session of 27030 seconds per stage (450.5 minutes).
NightSessions ==
  {OuraSleepSession(d, "long_sleep", Num(27030000), Num(52340)) : d \in Dates}

InitPipeline ==
  /\ hostZone = [summer |-> 0, winter |-> 0, fallBackDay |-> 0]
  /\ xmlLines \in UNION {[1..n -> SpO2Lines] : n \in 0..MaxLines}
  /\ lineCount = 0
  /\ daily = EmptyDaily
  /\ dailyData = Null
  /\ \E sessions \in UNION {[1..n -> NightSessions] : n \in 0..1} :
        files = [f \in FileNames |-> IF f = "sleep" THEN sessions ELSE <<>>]
  /\ disk = [f \in FileNames |-> "json"]
  /\ FreshRun
  /\ ChartIdle
  /\ RestIdle

NextPipeline ==
  \/ NextNormalizer
  \/ Next

SpecPipeline == InitPipeline /\ [][NextPipeline]_vars

\* The Oura session field behind each unified sleep field.
OuraSleepField ==
  [sleepDurationMinutes |-> "total_sleep_duration",
   sleepDeepMinutes |-> "deep_sleep_duration",
   sleepREMMinutes |-> "rem_sleep_duration",
   sleepLightMinutes |-> "light_sleep_duration",
   sleepAwakeMinutes |-> "awake_time"]

\* Seconds as whole minutes, halves rounded up.
WholeMinutes(sec) == Num(RoundHalfUp(sec.n, 60 * Scale) * Scale)

\* An oxygen-saturation sample as a percentage.
AsPercent(v) == IF v.n <= Scale THEN Num(v.n * 100) ELSE v

\* C24 (unit normalization): every unified sleep duration or sleep-stage
\* value tagged oura is the kept Oura session's value in seconds divided by
\* 60 and rounded to whole minutes, and every unified oxygen saturation
\* tagged apple_health is the one-decimal mean of the day's Apple samples
\* with every sample given as a fraction in 0..1 first multiplied by 100.
C24_UnitNormalization ==
  \A r \in Emitted :
    /\ \A field \in DOMAIN OuraSleepField :
         (r[field] # Null /\ r[field].source = "oura") =>
            r[field].value =
              WholeMinutes(MapGet(ouraSleepMap, r.date)[OuraSleepField[field]])
    /\ (r.oxygenSaturation # Null /\ r.oxygenSaturation.source = "apple_health") =>
         LET samples == ReadingsOf("HKQuantityTypeIdentifierOxygenSaturation", r.date)
             percents == [j \in 1..Len(samples) |-> AsPercent(samples[j])]
         IN r.oxygenSaturation.value = MeanToOneDecimal(SumOf(percents), Len(percents))

\* A unified record whose sleep duration is Oura's 27030 seconds as 451
\* minutes and whose oxygen saturation is Apple's, from a day with a sample
\* given as the fraction 0.975 and one given as 96.5 percent: 97.0.
C24_Witness ==
  \E r \in Emitted :
    /\ r.sleepDurationMinutes = [value |-> Num(451000), source |-> "oura"]
    /\ r.oxygenSaturation = [value |-> Num(97000), source |-> "apple_health"]
    /\ \E j \in 1..Len(xmlLines) : xmlLines[j].value = Num(975) /\ xmlLines[j].date = r.date
    /\ \E j \in 1..Len(xmlLines) : xmlLines[j].value = Num(96500) /\ xmlLines[j].date = r.date

(***************************************************************************)
(* The summary cards: the Apple Health page (src/pages/apple-health.tsx)   *)
(* and the health report (src/scripts/generateHealthReport.ts) read the    *)
(* unified days and show averages and, on the page, the source of the      *)
(* latest value.  A day is modelled by its date and one metric, hrv.       *)
(***************************************************************************)
\* Number of unified days given to the page and the report.
MaxDays == 3

\* s?.value ?? null
val(s) ==
  IF s \in {Null, Undef} THEN Null ELSE IF Nullish(s.value) THEN Null ELSE s.value

\* s?.source ?? null
sourceName(s) == IF s \in {Null, Undef} THEN Null ELSE Text(s.source)

\* days.map(d => val(extractor(d))).filter(v => v !== null)
RECURSIVE valuesOf(_, _)
valuesOf(days, field) ==
  IF days = <<>> THEN <<>>
  ELSE (IF val(Head(days)[field]) # Null THEN <<val(Head(days)[field])>> ELSE <<>>)
       \o valuesOf(Tail(days), field)

\* The page: null for no values, else the mean rounded to one decimal.
avgSourced(days, field) ==
  LET values == valuesOf(days, field)
  IN IF Len(values) = 0 THEN Null
     ELSE MeanToOneDecimal(SumOf(values), Len(values))

\* The report: sourced?.value ?? null, nulls filtered out.
extractValues(days, field) == valuesOf(days, field)

\* The quotient sum / count, not rounded.
Quotient(sum, count) == [t |-> "quotient", sum |-> sum, count |-> count]

\* The report's avg: 0 for no numbers, else the mean as it is.
reportAvg(nums) ==
  IF Len(nums) = 0 THEN Num(0) ELSE Quotient(SumOf(nums), Len(nums))

\* filteredDaily.filter(d => d[field]).slice(-1)[0]; an object is truthy
\* whatever its value.
latestWith_first(days, field) ==
  LET with == SelectSeq(days, LAMBDA d : d[field] # Null)
  IN IF with = <<>> THEN Undef ELSE with[1]

latestWith(days, field) ==
  LET with == SelectSeq(days, LAMBDA d : d[field] # Null)
  IN IF with = <<>> THEN Undef ELSE with[Len(with)]

\* sourceName(latestWith?.[field] ?? null)
badgeSource(days, field) ==
  LET latest == latestWith(days, field)
  IN sourceName(IF latest = Undef THEN Null ELSE latest[field])

\* The page is rendered: the average card and its source badge.
RenderPage ==
  /\ pageStats = Null
  /\ pageStats' = [avgHRV |-> avgSourced(filteredDaily, "hrv"),
                   hrvSource |-> badgeSource(filteredDaily, "hrv")]
  /\ UNCHANGED <<filteredDaily, reportStats, modalVars, syncVars>>
  /\ UNCHANGED <<normalizerVars, chartVars>>
  /\ UNCHANGED <<files, disk, unifiedDir, pc, appleMap, ouraSleepDailyMap,
                 ouraSleepMap, ouraActivityMap, ouraReadinessMap, ouraSpO2Map,
                 sortedDates, idx, unified, sourceCounters, artifact>>

\* The report is generated: avg(extractValues(days, "hrv")).
GenerateReport ==
  /\ reportStats = Null
  /\ reportStats' = [hrvAvg |-> reportAvg(extractValues(filteredDaily, "hrv"))]
  /\ UNCHANGED <<filteredDaily, pageStats, modalVars, syncVars>>
  /\ UNCHANGED <<normalizerVars, chartVars>>
  /\ UNCHANGED <<files, disk, unifiedDir, pc, appleMap, ouraSleepDailyMap,
                 ouraSleepMap, ouraActivityMap, ouraReadinessMap, ouraSpO2Map,
                 sortedDates, idx, unified, sourceCounters, artifact>>

NextPage ==
  \/ RenderPage
  \/ GenerateReport

\* Unified days in any order of date, with and without an hrv, from either
\* source.
PageDays ==
  [date : 1..MaxDay,
   hrv : {Null, [value |-> Num(45200), source |-> "apple_health"],
          [value |-> Num(50300), source |-> "oura"]}]

InitPage ==
  /\ filteredDaily \in UNION {[1..n -> PageDays] : n \in 0..MaxDays}
  /\ pageStats = Null
  /\ reportStats = Null
  /\ ModalIdle
  /\ SyncIdle
  /\ BuildIdle
  /\ NormalizerIdle
  /\ ChartIdle

SpecPage == InitPage /\ [][NextPage]_vars

\* The non-null hrv values of the days, in the order of the list.
HrvValues ==
  LET with == SelectSeq(filteredDaily, LAMBDA d : d.hrv # Null)
  IN [j \in 1..Len(with) |-> with[j].hrv.value]

\* C22 (null-safe averaging): every averaging helper returns null when no
\* day has a value for the field (the list is empty or every field is
\* null), and otherwise the arithmetic mean of the non-null values only:
\* the page's avgSourced, the report's avg over extractValues, and the
\* normalizer's avg.
C22_NullSafeAveraging ==
  /\ pageStats # Null =>
       pageStats.avgHRV =
         IF HrvValues = <<>> THEN Null
         ELSE MeanToOneDecimal(SumOf(HrvValues), Len(HrvValues))
  /\ reportStats # Null =>
       reportStats.hrvAvg =
         IF HrvValues = <<>> THEN Null
         ELSE Quotient(SumOf(HrvValues), Len(HrvValues))
  /\ avg(HrvValues) =
       IF HrvValues = <<>> THEN Null
       ELSE MeanToOneDecimal(SumOf(HrvValues), Len(HrvValues))

\* The list is in ascending order of date, one record per date.
DaysAscending ==
  \A j, k \in 1..Len(filteredDaily) :
    j < k => filteredDaily[j].date < filteredDaily[k].date

\* C25 (dominant source): for a date-ascending list of unified records the
\* source of the badge is the tag of the record of the latest date among
\* those that have the field, and none when no record has the field.
C25_DominantSource ==
  (pageStats # Null /\ DaysAscending) =>
    LET with == {j \in 1..Len(filteredDaily) : filteredDaily[j].hrv # Null}
    IN IF with = {} THEN pageStats.hrvSource = Null
       ELSE \E j \in with :
              /\ \A k \in with : filteredDaily[k].date <= filteredDaily[j].date
              /\ pageStats.hrvSource = Text(filteredDaily[j].hrv.source)

\* An ascending list whose latest day has no hrv and whose earlier days
\* have it from different sources: the badge shows the later of the two.
C25_Witness ==
  /\ pageStats # Null
  /\ DaysAscending
  /\ Len(filteredDaily) = 3
  /\ filteredDaily[1].hrv # Null /\ filteredDaily[1].hrv.source = "apple_health"
  /\ filteredDaily[2].hrv # Null /\ filteredDaily[2].hrv.source = "oura"
  /\ filteredDaily[3].hrv = Null
  /\ pageStats.hrvSource = Text("oura")

(***************************************************************************)
(* The upload modal of the lab results (src/unnamed/part_000).  The        *)
(* dashboard keeps it mounted and passes isOpen; its React state lives on  *)
(* while it is closed.  A parse is a promise that settles at any later     *)
(* time, whatever happened to the modal in between.                        *)
(***************************************************************************)
\* Number of files the user selects.
MaxSelections == 2

\* What the parser does with a file: it finds reports, finds none, fails,
\* or the file has an extension that no parser takes.
Outcomes == {"reports", "empty", "rejects", "unsupported"}

\* The reports a parser finds in a file: one report, known by the file.
ReportsOf(file) == IF file.outcome = "reports" THEN <<file.id>> ELSE <<>>

\* handleFileSelect up to its await: an unsupported extension throws inside
\* the try before anything is awaited, so the catch runs in the same event.
HandleFileSelect ==
  /\ isOpen
  /\ status = "idle"
  /\ selections < MaxSelections
  /\ \E outcome \in Outcomes :
       LET file == [id |-> selections + 1, outcome |-> outcome]
       IN /\ selectedFile' = file
          /\ IF outcome = "unsupported"
             THEN /\ error' = Text("Unsupported file format")
                  /\ status' = "error"
                  /\ UNCHANGED pendingParses
             ELSE /\ error' = Null
                  /\ status' = "parsing"
                  /\ pendingParses' = pendingParses \cup {file}
  /\ selections' = selections + 1
  /\ UNCHANGED <<isOpen, parsedReports, uploaded>>
  /\ UNCHANGED <<pageVars, syncVars, normalizerVars, chartVars>>
  /\ UNCHANGED <<files, disk, unifiedDir, pc, appleMap, ouraSleepDailyMap,
                 ouraSleepMap, ouraActivityMap, ouraReadinessMap, ouraSpO2Map,
                 sortedDates, idx, unified, sourceCounters, artifact>>

\* handleFileSelect after its await: the parse of a file settles.
ParseSettles ==
  /\ \E file \in pendingParses :
       /\ pendingParses' = pendingParses \ {file}
       /\ IF ReportsOf(file) # <<>>
          THEN /\ parsedReports' = ReportsOf(file)
               /\ status' = "success"
               /\ UNCHANGED error
          ELSE /\ error' = IF file.outcome = "empty"
                           THEN Text("No lab results found in the file.")
                           ELSE Text("Failed to parse file")
               /\ status' = "error"
               /\ UNCHANGED parsedReports
  /\ UNCHANGED <<isOpen, selectedFile, uploaded, selections>>
  /\ UNCHANGED <<pageVars, syncVars, normalizerVars, chartVars>>
  /\ UNCHANGED <<files, disk, unifiedDir, pc, appleMap, ouraSleepDailyMap,
                 ouraSleepMap, ouraActivityMap, ouraReadinessMap, ouraSpO2Map,
                 sortedDates, idx, unified, sourceCounters, artifact>>

\* The state handleClose sets, and onClose().
Closes ==
  /\ status' = "idle"
  /\ error' = Null
  /\ selectedFile' = Null
  /\ parsedReports' = <<>>
  /\ isOpen' = FALSE

\* Cancel and the X button.
HandleClose ==
  /\ isOpen
  /\ Closes
  /\ UNCHANGED <<pendingParses, uploaded, selections>>
  /\ UNCHANGED <<pageVars, syncVars, normalizerVars, chartVars>>
  /\ UNCHANGED <<files, disk, unifiedDir, pc, appleMap, ouraSleepDailyMap,
                 ouraSleepMap, ouraActivityMap, ouraReadinessMap, ouraSpO2Map,
                 sortedDates, idx, unified, sourceCounters, artifact>>

\* The Import button, shown when status is 'success'.
HandleConfirm ==
  /\ isOpen
  /\ status = "success"
  /\ uploaded' = Append(uploaded, parsedReports)
  /\ Closes
  /\ UNCHANGED <<pendingParses, selections>>
  /\ UNCHANGED <<pageVars, syncVars, normalizerVars, chartVars>>
  /\ UNCHANGED <<files, disk, unifiedDir, pc, appleMap, ouraSleepDailyMap,
                 ouraSleepMap, ouraActivityMap, ouraReadinessMap, ouraSpO2Map,
                 sortedDates, idx, unified, sourceCounters, artifact>>

\* The "Try again" link, shown when status is 'error'.
TryAgain ==
  /\ isOpen
  /\ status = "error"
  /\ status' = "idle"
  /\ error' = Null
  /\ selectedFile' = Null
  /\ UNCHANGED <<isOpen, parsedReports, pendingParses, uploaded, selections>>
  /\ UNCHANGED <<pageVars, syncVars, normalizerVars, chartVars>>
  /\ UNCHANGED <<files, disk, unifiedDir, pc, appleMap, ouraSleepDailyMap,
                 ouraSleepMap, ouraActivityMap, ouraReadinessMap, ouraSpO2Map,
                 sortedDates, idx, unified, sourceCounters, artifact>>

\* The dashboard's upload buttons: setShowUploadModal(true).
OpenModal ==
  /\ ~isOpen
  /\ isOpen' = TRUE
  /\ UNCHANGED <<status, error, selectedFile, parsedReports, pendingParses,
                 uploaded, selections>>
  /\ UNCHANGED <<pageVars, syncVars, normalizerVars, chartVars>>
  /\ UNCHANGED <<files, disk, unifiedDir, pc, appleMap, ouraSleepDailyMap,
                 ouraSleepMap, ouraActivityMap, ouraReadinessMap, ouraSpO2Map,
                 sortedDates, idx, unified, sourceCounters, artifact>>

NextModal ==
  \/ OpenModal
  \/ HandleFileSelect
  \/ ParseSettles
  \/ HandleClose
  \/ HandleConfirm
  \/ TryAgain

InitModal ==
  /\ ModalIdle
  /\ PageIdle
  /\ SyncIdle
  /\ BuildIdle
  /\ NormalizerIdle
  /\ ChartIdle

SpecModal == InitModal /\ [][NextModal]_vars

\* The modal as handleClose leaves it.
Cleared ==
  /\ status = "idle"
  /\ selectedFile = Null
  /\ error = Null
  /\ parsedReports = <<>>

\* C29 (upload modal reset): in every step, under any interleaving of
\* selections, parse completions, closes and confirms: a close leaves the
\* modal idle with no file, no error and no reports; a modal in that state
\* stays in it until a file is selected, so a parse started before the
\* close never moves it to success or error; and onUpload is called only
\* with the non-empty reports of the most recently selected file.
C29_UploadModalReset ==
  [][ /\ (isOpen /\ ~isOpen') => Cleared'
      /\ (Cleared /\ selectedFile' = Null) => Cleared'
      /\ (uploaded' # uploaded) =>
            /\ selectedFile # Null
            /\ ReportsOf(selectedFile) # <<>>
            /\ uploaded' = Append(uploaded, ReportsOf(selectedFile)) ]_vars

(***************************************************************************)
(* The Strava sync (syncActivities of src/unnamed/part_007, called by the  *)
(* handler of src/pages/api/strava/sync.ts).  Every POST runs the handler; *)
(* a call reads the user document, merges in memory and writes the list    *)
(* back, and the calls of concurrent requests interleave at their awaits.  *)
(***************************************************************************)
\* Number of sync requests of the user, and of activities Strava has.
MaxCalls == 2
MaxActivities == 3

\* An activity as the Strava API returns it; its start date is its number.
StravaActivity(id) ==
  [id |-> id, start_date |-> id, map |-> [summary_polyline |-> "polyline"]]

\* The stored form: the fields copied, the polyline taken out of the map.
convertActivityToFirestore(activity) ==
  [id |-> activity.id, start_date |-> activity.start_date,
   summary_polyline |-> activity.map.summary_polyline]

\* What the handler collects: the activities of the last 30 days, which are
\* consecutive ones of the athlete's activities, newest first.
Batches ==
  {<<>>} \cup
  {[j \in 1..(b - a + 1) |-> StravaActivity(b + 1 - j)] :
      a \in 1..MaxActivities, b \in 1..MaxActivities}

\* mergedActivities.sort by start_date, newest first (the sort is stable).
RECURSIVE InsertNewestFirst(_, _)
InsertNewestFirst(sorted, a) ==
  IF sorted = <<>> THEN <<a>>
  ELSE IF a.start_date > Head(sorted).start_date THEN <<a>> \o sorted
  ELSE <<Head(sorted)>> \o InsertNewestFirst(Tail(sorted), a)

RECURSIVE SortNewestFirst(_)
SortNewestFirst(list) ==
  IF list = <<>> THEN <<>>
  ELSE InsertNewestFirst(SortNewestFirst(SubSeq(list, 1, Len(list) - 1)),
                         list[Len(list)])

IdsOf(list) == {list[j].id : j \in 1..Len(list)}

MapConvert(list) == [j \in 1..Len(list) |-> convertActivityToFirestore(list[j])]

\* const userDoc = await getDoc(userRef); existingActivities = ... || []
GetDoc(c) ==
  /\ syncCalls[c].pc = "getDoc"
  /\ syncCalls' = [syncCalls EXCEPT ![c].pc = "updateDoc",
                                     ![c].existingActivities = stravaActivities]
  /\ UNCHANGED <<stravaActivities, previouslyStored>>
  /\ UNCHANGED <<pageVars, modalVars, normalizerVars, chartVars>>
  /\ UNCHANGED <<files, disk, unifiedDir, pc, appleMap, ouraSleepDailyMap,
                 ouraSleepMap, ouraActivityMap, ouraReadinessMap, ouraSpO2Map,
                 sortedDates, idx, unified, sourceCounters, artifact>>

\* The merge in memory, await updateDoc(userRef, ...) and the result.
UpdateDoc(c) ==
  /\ syncCalls[c].pc = "updateDoc"
  /\ LET activities == syncCalls[c].activities
         existingActivities == syncCalls[c].existingActivities
         existingIds == IdsOf(existingActivities)
         newActivities == SelectSeq(activities, LAMBDA a : a.id \notin existingIds)
         mergedActivities ==
           SortNewestFirst(existingActivities \o MapConvert(newActivities))
     IN /\ stravaActivities' = mergedActivities
        /\ syncCalls' =
             [syncCalls EXCEPT
                ![c].pc = "done",
                ![c].mergedActivities = mergedActivities,
                ![c].result = [synced |-> Len(newActivities),
                               skipped |-> Len(activities) - Len(newActivities),
                               total |-> Len(mergedActivities)]]
  /\ UNCHANGED previouslyStored
  /\ UNCHANGED <<pageVars, modalVars, normalizerVars, chartVars>>
  /\ UNCHANGED <<files, disk, unifiedDir, pc, appleMap, ouraSleepDailyMap,
                 ouraSleepMap, ouraActivityMap, ouraReadinessMap, ouraSpO2Map,
                 sortedDates, idx, unified, sourceCounters, artifact>>

NextSync ==
  \/ \E c \in 1..MaxCalls : GetDoc(c)
  \/ \E c \in 1..MaxCalls : UpdateDoc(c)

\* The user document exists, with no activities or with the oldest one.
InitSync ==
  /\ previouslyStored \in {<<>>, <<convertActivityToFirestore(StravaActivity(1))>>}
  /\ stravaActivities = previouslyStored
  /\ \E batches \in [1..MaxCalls -> Batches] :
       syncCalls = [c \in 1..MaxCalls |->
                      [pc |-> "getDoc", activities |-> batches[c],
                       existingActivities |-> <<>>, mergedActivities |-> <<>>,
                       result |-> Null]]
  /\ PageIdle
  /\ ModalIdle
  /\ BuildIdle
  /\ NormalizerIdle
  /\ ChartIdle

SpecSync == InitSync /\ [][NextSync]_vars

\* C30 (the sync keeps everything once): once every call has completed,
\* the stored list holds every previously stored activity and every
\* activity of every batch, no two stored entries share an id, and each
\* call's result has synced + skipped = the size of its batch and total =
\* the number of entries it stored.
C30_SyncKeepsEverything ==
  (\A c \in 1..MaxCalls : syncCalls[c].pc = "done") =>
    /\ IdsOf(previouslyStored) \subseteq IdsOf(stravaActivities)
    /\ \A c \in 1..MaxCalls :
         IdsOf(syncCalls[c].activities) \subseteq IdsOf(stravaActivities)
    /\ \A j, k \in 1..Len(stravaActivities) :
         j # k => stravaActivities[j].id # stravaActivities[k].id
    /\ \A c \in 1..MaxCalls :
         /\ syncCalls[c].result.synced + syncCalls[c].result.skipped
              = Len(syncCalls[c].activities)
         /\ syncCalls[c].result.total = Len(syncCalls[c].mergedActivities)
====
